---- MODULE Spec2Model ----
(***************************************************************************)
(* Nokia n810 battery management (drivers/cbus/n810bm_main.c).             *)
(*                                                                         *)
(* The controller (struct n810bm), the Tahvo charge-control registers it   *)
(* drives, the three deferred work items, the sysfs attribute handlers,    *)
(* the current-measurement interrupt and the probe/remove life cycle.      *)
(* Functions of the driver are operators from a machine record to a        *)
(* machine record; every handler is a small process: dequeue, mutex_lock,  *)
(* body, the notify calls it queued, mutex_unlock.                         *)
(***************************************************************************)
EXTENDS Integers, Sequences, FiniteSets, TLC

\* ------------------------------------------------------------------ bounds

\* start_charge after a failed lipocharge_start leaks one reference per
\* monitor pass; the model stops failing starts at this refcount.
MaxRefcount == 1

\* ------------------------------------------------------- program constants

N810BM_MIN_VOLTAGE_THRES == 3200
N810BM_CAP_UNKNOWN == -1
N810BM_CAP_NONE == 0
N810BM_CAP_1500MAH == 1500
N810BM_NOTIFY_charger_present == 0
N810BM_NOTIFY_charger_state == 1
N810BM_NOTIFY_charger_pwm == 2
CurrentMeasureInterval == 250

NotifyBits ==
  {N810BM_NOTIFY_charger_present, N810BM_NOTIFY_charger_state, N810BM_NOTIFY_charger_pwm}

\* ------------------------------------------------------------ C arithmetic

\* C integer division truncates toward zero.
CDiv(a, b) == IF a >= 0 THEN a \div b ELSE -((-a) \div b)

\* (s16)v for a 16 bit register value v
S16(v) == IF v >= 32768 THEN v - 65536 ELSE v

\* 1 << n
Shl1(n) == 2 ^ n

\* flags & (1 << n)
TestBit(flags, n) == (flags \div Shl1(n)) % 2 = 1

\* flags | (1 << n)
SetBit(flags, n) == IF TestBit(flags, n) THEN flags ELSE flags + Shl1(n)

Rep(v, n) == [i \in 1..n |-> v]

\* ------------------------------------------------------------ the machine

\* struct n810bm after kzalloc, and the Tahvo registers the driver writes.
\* charging is charger.state != LIPO_IDLE; log is the trace of the handler
\* that is running; todo holds the notify calls that handler has made.
ZeroMachine ==
  [battery_present |-> FALSE,
   charger_present |-> FALSE,
   capacity |-> N810BM_CAP_NONE,
   charger_enabled |-> FALSE,
   charging |-> FALSE,
   active_current_pwm |-> 0,
   current_measure_enabled |-> 0,
   initialized |-> FALSE,
   chgctl |-> {},
   chgcurr |-> 0,
   batcurrtimer |-> 0,
   irq_enabled |-> FALSE,
   halted |-> FALSE,
   log |-> <<>>,
   todo |-> <<>>]

Log(s, ev) == [s EXCEPT !.log = Append(@, ev)]

n810bm_known_battery_present(s) ==
  /\ s.battery_present
  /\ s.capacity # N810BM_CAP_UNKNOWN
  /\ s.capacity # N810BM_CAP_NONE

\* cbus_emergency() does not return: the device halts.
n810bm_emergency(s, message) ==
  [Log(s, <<"emergency", message>>) EXCEPT !.halted = TRUE]

tahvo_maskset(s, mask, set) ==
  [Log(s, <<"CHGCTL", mask, set>>) EXCEPT !.chgctl = (@ \ mask) \cup set]

tahvo_set(s, mask) == tahvo_maskset(s, mask, mask)

tahvo_clear(s, mask) == tahvo_maskset(s, mask, {})

\* tahvo_write(bm, TAHVO_REG_CHGCURR, value)
tahvo_write_chgcurr(s, value) ==
  [Log(s, <<"CHGCURR", value>>) EXCEPT !.chgcurr = value]

\* ------------------------------------------------------------ measurement

RECURSIVE AdcSum(_, _, _)
\* The loop of retu_adc_average: the first failing read ends it.
AdcSum(samples, i, nr_passes) ==
  IF i > nr_passes THEN [err |-> 0, value |-> 0]
  ELSE IF samples[i] < 0 THEN [err |-> samples[i], value |-> 0]
  ELSE LET rest == AdcSum(samples, i + 1, nr_passes)
       IN  IF rest.err < 0 THEN rest
           ELSE [err |-> 0, value |-> samples[i] + rest.value]

retu_adc_average(samples, nr_passes) ==
  IF nr_passes = 0 THEN 0
  ELSE LET r == AdcSum(samples, 1, nr_passes)
       IN  IF r.err < 0 THEN r.err ELSE r.value \div nr_passes

n810bm_measure_batt_voltage(samples) ==
  LET adc == retu_adc_average(samples, 5)
      scale == 1000
  IN  IF adc < 0 THEN adc
      ELSE IF adc <= 55 THEN 2800
      ELSE 2800 + ((adc - 55) * (((4200 - 2800) * scale) \div (566 - 55))) \div scale

n810bm_measure_batt_temp(samples) ==
  LET adc == retu_adc_average(samples, 3)
  IN  adc

\* a capacity read whose band excludes its two ends
n810bm_read_batt_capacity_open(samples) ==
  LET adc == retu_adc_average(samples, 5)
      hyst == 20
  IN  IF adc < 0 THEN N810BM_CAP_UNKNOWN
      ELSE IF adc > 949 - hyst /\ adc < 949 + hyst THEN N810BM_CAP_1500MAH
      ELSE N810BM_CAP_UNKNOWN

n810bm_read_batt_capacity(samples) ==
  LET adc == retu_adc_average(samples, 5)
      hyst == 20
  IN  IF adc < 0 THEN N810BM_CAP_UNKNOWN
      ELSE IF adc >= 949 - hyst /\ adc <= 949 + hyst THEN N810BM_CAP_1500MAH
      ELSE N810BM_CAP_UNKNOWN

\* ((u64)0x10624DD3 * (u64)x) >> 32 in 32 bit steps:
\* 0x10624DD3 = 4194 * 2^16 + 19923
MulShift32(x) == ((4194 * x) + ((19923 * x) \div 65536)) \div 65536

\* The timer register value of n810bm_set_current_measure_timer.
CurrentMeasureTimerValue(millisec_interval) ==
  IF millisec_interval <= 63749
    THEN (MulShift32(millisec_interval + 249) % 65536) \div 16
    ELSE 255

n810bm_set_current_measure_timer(s, millisec_interval) ==
  LET value == CurrentMeasureTimerValue(millisec_interval)
      s1 == [Log(s, <<"BATCURRTIMER", value % 256>>) EXCEPT !.batcurrtimer = value % 256]
      s2 == tahvo_set(s1, {"CURTIMRST"})
      s3 == tahvo_clear(s2, {"CURTIMRST"})
  IN  [s3 EXCEPT !.irq_enabled = (millisec_interval # 0)]

n810bm_enable_current_measure(s) ==
  LET s1 == IF s.current_measure_enabled = 0 THEN tahvo_set(s, {"CURMEAS"}) ELSE s
  IN  [s1 EXCEPT !.current_measure_enabled = @ + 1]

\* a disable that switches the circuitry off whatever the count
n810bm_disable_current_measure_noref(s) ==
  tahvo_clear([s EXCEPT !.current_measure_enabled = @ - 1], {"CURMEAS"})

n810bm_disable_current_measure(s) ==
  LET s1 == [s EXCEPT !.current_measure_enabled = @ - 1]
  IN  IF s1.current_measure_enabled = 0 THEN tahvo_clear(s1, {"CURMEAS"}) ELSE s1

\* raw is the three values read from TAHVO_REG_BATCURR
n810bm_measure_batt_current(s, raw) ==
  IF s.current_measure_enabled <= 0 THEN 0
  ELSE CDiv(S16(raw[1]) + S16(raw[2]) + S16(raw[3]), 3)

\* a read that takes no reference on the measurement circuitry
n810bm_measure_batt_current_async_noref(s, raw) ==
  LET charging == s.charging
      s2 == tahvo_maskset(s, {"EN", "PWMOVR", "PWMOVRZERO"},
                          {"EN", "PWMOVR"} \cup (IF charging THEN {} ELSE {"PWMOVRZERO"}))
      s3 == Log(s2, <<"batt_current", s2.current_measure_enabled,
                      n810bm_measure_batt_current(s2, raw)>>)
  IN  tahvo_maskset(s3, {"EN", "PWMOVR", "PWMOVRZERO"},
                    IF charging THEN {"EN"} ELSE {})

n810bm_measure_batt_current_async(s, raw) ==
  LET charging == s.charging
      s1 == n810bm_enable_current_measure(s)
      s2 == tahvo_maskset(s1, {"EN", "PWMOVR", "PWMOVRZERO"},
                          {"EN", "PWMOVR"} \cup (IF charging THEN {} ELSE {"PWMOVRZERO"}))
      s3 == Log(s2, <<"batt_current", s2.current_measure_enabled,
                      n810bm_measure_batt_current(s2, raw)>>)
      s4 == tahvo_maskset(s3, {"EN", "PWMOVR", "PWMOVRZERO"},
                          IF charging THEN {"EN"} ELSE {})
  IN  n810bm_disable_current_measure(s4)

\* ----------------------------------------------------------- notification

n810bm_notify_schedule_first(s, bit) ==
  [s EXCEPT !.todo = @ \o << <<"schedule_work">>, <<"set_bit", bit>> >>]

\* DEFINE_ATTR_NOTIFY: set_bit(); wmb(); schedule_work(&bm->notify_work).
\* The two steps are taken one at a time by the calling activity.
n810bm_notify(s, bit) ==
  [s EXCEPT !.todo = @ \o << <<"set_bit", bit>>, <<"schedule_work">> >>]

n810bm_notify_charger_present(s) == n810bm_notify(s, N810BM_NOTIFY_charger_present)

n810bm_notify_charger_state(s) == n810bm_notify(s, N810BM_NOTIFY_charger_state)

n810bm_notify_charger_pwm(s) == n810bm_notify(s, N810BM_NOTIFY_charger_pwm)

\* flags & n
TestMask(flags, n) == n > 0 /\ TestBit(flags, n - 1) /\ n \in {1, 2}

do_notify_noshift(notify_flags) ==
  (IF TestMask(notify_flags, N810BM_NOTIFY_charger_present)
     THEN <<N810BM_NOTIFY_charger_present>> ELSE <<>>)
  \o (IF TestMask(notify_flags, N810BM_NOTIFY_charger_state)
     THEN <<N810BM_NOTIFY_charger_state>> ELSE <<>>)
  \o (IF TestMask(notify_flags, N810BM_NOTIFY_charger_pwm)
     THEN <<N810BM_NOTIFY_charger_pwm>> ELSE <<>>)

\* The do_notify() lines of n810bm_notify_work, in their order.
do_notify(notify_flags) ==
  (IF TestBit(notify_flags, N810BM_NOTIFY_charger_present)
     THEN <<N810BM_NOTIFY_charger_present>> ELSE <<>>)
  \o (IF TestBit(notify_flags, N810BM_NOTIFY_charger_state)
     THEN <<N810BM_NOTIFY_charger_state>> ELSE <<>>)
  \o (IF TestBit(notify_flags, N810BM_NOTIFY_charger_pwm)
     THEN <<N810BM_NOTIFY_charger_pwm>> ELSE <<>>)

\* ------------------------------------------------- the charge algorithm

\* lipocharge (lipocharge.c is not part of the sources): start either
\* enters a charging state or fails, stop leaves it, is_charging reports it.
lipocharge_is_charging(s) == s.charging

lipocharge_start(s, ok) ==
  [Log(s, <<"lipocharge_start", s.capacity, ok>>) EXCEPT !.charging = (ok \/ @)]

lipocharge_stop(s) == [s EXCEPT !.charging = FALSE]

lipocharge_exit(s) == s

\* ------------------------------------------------------- charge control

\* a PWM setter that does not look at charger_enabled
n810bm_charger_set_current_pwm_noenable(s, duty_cycle) ==
  IF duty_cycle > 255 THEN Log(s, <<"set_current_pwm", duty_cycle, "EINVAL">>)
  ELSE IF ~s.battery_present \/ ~s.charger_present
    THEN Log(s, <<"set_current_pwm", duty_cycle, "EINVAL">>)
  ELSE LET s1 == IF duty_cycle # s.active_current_pwm
                   THEN n810bm_notify_charger_pwm(
                          tahvo_write_chgcurr(
                            [s EXCEPT !.active_current_pwm = duty_cycle], duty_cycle))
                   ELSE s
       IN  Log(s1, <<"set_current_pwm", duty_cycle, "ok">>)

n810bm_charger_set_current_pwm(s, duty_cycle) ==
  IF duty_cycle > 255 THEN Log(s, <<"set_current_pwm", duty_cycle, "EINVAL">>)
  ELSE IF ~s.charger_enabled THEN Log(s, <<"set_current_pwm", duty_cycle, "EINVAL">>)
  ELSE IF ~s.battery_present \/ ~s.charger_present
    THEN Log(s, <<"set_current_pwm", duty_cycle, "EINVAL">>)
  ELSE LET s1 == IF duty_cycle # s.active_current_pwm
                   THEN n810bm_notify_charger_pwm(
                          tahvo_write_chgcurr(
                            [s EXCEPT !.active_current_pwm = duty_cycle], duty_cycle))
                   ELSE s
       IN  Log(s1, <<"set_current_pwm", duty_cycle, "ok">>)

n810bm_charger_emergency(s) == n810bm_emergency(s, "Battery charger fault")

\* update_state of the algorithm: it may request a duty cycle through the
\* PWM setter, may raise its emergency callback, and returns res
\* (0 continue, > 0 full, < 0 fault).
lipocharge_update_state(s, mv, ma, temp, alg) ==
  LET s0 == Log(s, <<"update_state", mv, ma, temp>>)
      s1 == IF alg.pwm >= 0 THEN n810bm_charger_set_current_pwm(s0, alg.pwm) ELSE s0
  IN  IF alg.emergency THEN n810bm_charger_emergency(s1) ELSE s1

n810bm_start_charge(s, ok) ==
  LET s0 == Log(s, <<"start_charge", s.battery_present, s.charger_present,
                     s.charger_enabled, s.capacity>>)
      s1 == tahvo_write_chgcurr([s0 EXCEPT !.active_current_pwm = 0], 0)
      s2 == tahvo_maskset(s1, {"EN", "PWMOVR", "PWMOVRZERO"}, {"EN"})
      s3 == lipocharge_start(s2, ok)
      s4 == n810bm_enable_current_measure(s3)
      s5 == n810bm_set_current_measure_timer(s4, CurrentMeasureInterval)
  IN  n810bm_notify_charger_pwm(n810bm_notify_charger_state(s5))

n810bm_stop_charge_nozero(s) ==
  LET s0 == Log(s, <<"stop_charge", lipocharge_is_charging(s)>>)
      s1 == IF lipocharge_is_charging(s0)
              THEN n810bm_disable_current_measure(n810bm_set_current_measure_timer(s0, 0))
              ELSE s0
      s2 == lipocharge_stop(s1)
      s4 == tahvo_maskset(s2, {"EN", "PWMOVR", "PWMOVRZERO"}, {})
  IN  n810bm_notify_charger_pwm(n810bm_notify_charger_state(s4))

n810bm_stop_charge_always_disable(s) ==
  LET s0 == Log(s, <<"stop_charge", lipocharge_is_charging(s)>>)
      s1 == n810bm_disable_current_measure(n810bm_set_current_measure_timer(s0, 0))
      s2 == lipocharge_stop(s1)
      s3 == tahvo_write_chgcurr([s2 EXCEPT !.active_current_pwm = 0], 0)
      s4 == tahvo_maskset(s3, {"EN", "PWMOVR", "PWMOVRZERO"}, {})
  IN  n810bm_notify_charger_pwm(n810bm_notify_charger_state(s4))

n810bm_stop_charge(s) ==
  LET s0 == Log(s, <<"stop_charge", lipocharge_is_charging(s)>>)
      s1 == IF lipocharge_is_charging(s0)
              THEN n810bm_disable_current_measure(n810bm_set_current_measure_timer(s0, 0))
              ELSE s0
      s2 == lipocharge_stop(s1)
      s3 == tahvo_write_chgcurr([s2 EXCEPT !.active_current_pwm = 0], 0)
      s4 == tahvo_maskset(s3, {"EN", "PWMOVR", "PWMOVRZERO"}, {})
  IN  n810bm_notify_charger_pwm(n810bm_notify_charger_state(s4))

\* ------------------------------------------------------ periodic monitor

Draining_unplugged_only(s) == s.battery_present /\ ~s.charger_present

\* "We're draining the battery"
Draining(s) ==
  \/ (s.battery_present /\ ~s.charger_present)
  \/ ~n810bm_known_battery_present(s)

ShouldStartCharge_noenable(s) ==
  /\ s.charger_present
  /\ n810bm_known_battery_present(s)
  /\ ~lipocharge_is_charging(s)

\* The nest of conditions around the call of n810bm_start_charge.
ShouldStartCharge(s) ==
  /\ s.charger_present
  /\ n810bm_known_battery_present(s)
  /\ s.charger_enabled
  /\ ~lipocharge_is_charging(s)

\* a pass that stops charging for a missing battery only
ShouldStopCharge_nobattery(s) == lipocharge_is_charging(s) /\ ~s.battery_present

\* "Charger was unplugged."
ShouldStopCharge(s) == lipocharge_is_charging(s) /\ ~s.charger_present

\* presence sampling that reads the capacity class whenever a battery is there
PresenceUpdate_reread(s, status, bsi) ==
  LET s1 == [s EXCEPT !.battery_present = ("BATAVAIL" \in status),
                      !.charger_present = ("CHGPLUG" \in status)]
      s2 == IF s1.battery_present
              THEN [s1 EXCEPT !.capacity = n810bm_read_batt_capacity(bsi)]
              ELSE [s1 EXCEPT !.capacity = N810BM_CAP_NONE]
  IN  IF s2.charger_present # s.charger_present
        THEN n810bm_notify_charger_present(s2)
        ELSE s2

\* presence edges that leave capacity alone when the battery is removed
PresenceUpdate_keepcap(s, status, bsi) ==
  LET s1 == [s EXCEPT !.battery_present = ("BATAVAIL" \in status),
                      !.charger_present = ("CHGPLUG" \in status)]
      s2 == IF s1.battery_present /\ ~s.battery_present
              THEN [s1 EXCEPT !.capacity = n810bm_read_batt_capacity(bsi)]
              ELSE s1
  IN  IF s2.charger_present # s.charger_present
        THEN n810bm_notify_charger_present(s2)
        ELSE s2

\* The battery and charger presence edges of one pass.
PresenceUpdate(s, status, bsi) ==
  LET s1 == [s EXCEPT !.battery_present = ("BATAVAIL" \in status),
                      !.charger_present = ("CHGPLUG" \in status)]
      s2 == IF s1.battery_present # s.battery_present
              THEN IF s1.battery_present
                     THEN [s1 EXCEPT !.capacity = n810bm_read_batt_capacity(bsi)]
                     ELSE [s1 EXCEPT !.capacity = N810BM_CAP_NONE]
              ELSE s1
  IN  IF s2.charger_present # s.charger_present
        THEN n810bm_notify_charger_present(s2)
        ELSE s2

\* The voltage floor check of one pass.
DrainCheck(s, volt) ==
  IF Draining(s)
    THEN LET mv == n810bm_measure_batt_voltage(volt)
             s1 == Log(s, <<"batt_voltage", mv>>)
         IN  IF mv < 0 THEN n810bm_emergency(s1, "check: Failed to measure voltage")
             ELSE IF mv < N810BM_MIN_VOLTAGE_THRES
               THEN n810bm_emergency(s1, "check: Minimum voltage threshold reached")
             ELSE s1
    ELSE s

\* a pass that never starts the charge
n810bm_periodic_check_work_nostart(s, status, bsi, volt, ok) ==
  LET s1 == PresenceUpdate(s, status, bsi)
      s2 == DrainCheck(s1, volt)
      s4 == IF ShouldStopCharge(s2) THEN n810bm_stop_charge(s2) ELSE s2
  IN  IF s2.halted THEN s2 ELSE s4

\* The body of n810bm_periodic_check_work between mutex_lock and mutex_unlock.
n810bm_periodic_check_work(s, status, bsi, volt, ok) ==
  LET s1 == PresenceUpdate(s, status, bsi)
      s2 == DrainCheck(s1, volt)
      s3 == IF ShouldStartCharge(s2) THEN n810bm_start_charge(s2, ok) ELSE s2
      s4 == IF ShouldStopCharge(s3) THEN n810bm_stop_charge(s3) ELSE s3
  IN  IF s2.halted THEN s2 ELSE s4

\* --------------------------------------------------- measurement task

\* a measurement task that leaves as soon as the voltage read has failed
n810bm_tahvo_current_measure_work_earlyexit(s, raw, volt, tempsamples, alg) ==
  IF ~lipocharge_is_charging(s) THEN s
  ELSE
    LET s1 == tahvo_maskset(s, {"PWMOVR", "PWMOVRZERO"}, {"PWMOVR"})
        ma == n810bm_measure_batt_current(s1, raw)
        s2 == Log(s1, <<"batt_current", s1.current_measure_enabled, ma>>)
        s3 == tahvo_maskset(s2, {"PWMOVR", "PWMOVRZERO"}, {"PWMOVR", "PWMOVRZERO"})
        mv == n810bm_measure_batt_voltage(volt)
        s4 == Log(Log(s3, <<"msleep", 10>>), <<"batt_voltage", mv>>)
        s5 == tahvo_maskset(s4, {"PWMOVR", "PWMOVRZERO"}, {})
        temp == n810bm_measure_batt_temp(tempsamples)
        s6 == Log(s5, <<"batt_temp", temp>>)
        s7 == lipocharge_update_state(s6, mv, ma, temp, alg)
    IN  IF mv < 0 THEN s4
        ELSE IF temp < 0 THEN s6
        ELSE IF s7.halted THEN s7
        ELSE IF alg.res # 0 THEN n810bm_stop_charge(s7)
        ELSE s7

\* a measurement task that stops the charge only when the battery is full
n810bm_tahvo_current_measure_work_fullonly(s, raw, volt, tempsamples, alg) ==
  IF ~lipocharge_is_charging(s) THEN s
  ELSE
    LET s1 == tahvo_maskset(s, {"PWMOVR", "PWMOVRZERO"}, {"PWMOVR"})
        ma == n810bm_measure_batt_current(s1, raw)
        s2 == Log(s1, <<"batt_current", s1.current_measure_enabled, ma>>)
        s3 == tahvo_maskset(s2, {"PWMOVR", "PWMOVRZERO"}, {"PWMOVR", "PWMOVRZERO"})
        mv == n810bm_measure_batt_voltage(volt)
        s4 == Log(Log(s3, <<"msleep", 10>>), <<"batt_voltage", mv>>)
        s5 == tahvo_maskset(s4, {"PWMOVR", "PWMOVRZERO"}, {})
        temp == n810bm_measure_batt_temp(tempsamples)
        s6 == Log(s5, <<"batt_temp", temp>>)
        s7 == lipocharge_update_state(s6, mv, ma, temp, alg)
    IN  IF mv < 0 \/ temp < 0 THEN s6
        ELSE IF s7.halted THEN s7
        ELSE IF alg.res > 0 THEN n810bm_stop_charge(s7)
        ELSE s7

\* a measurement task that samples the temperature before it restores the
\* PWM override
n810bm_tahvo_current_measure_work_templast(s, raw, volt, tempsamples, alg) ==
  IF ~lipocharge_is_charging(s) THEN s
  ELSE
    LET s1 == tahvo_maskset(s, {"PWMOVR", "PWMOVRZERO"}, {"PWMOVR"})
        ma == n810bm_measure_batt_current(s1, raw)
        s2 == Log(s1, <<"batt_current", s1.current_measure_enabled, ma>>)
        s3 == tahvo_maskset(s2, {"PWMOVR", "PWMOVRZERO"}, {"PWMOVR", "PWMOVRZERO"})
        mv == n810bm_measure_batt_voltage(volt)
        s4 == Log(Log(s3, <<"msleep", 10>>), <<"batt_voltage", mv>>)
        temp == n810bm_measure_batt_temp(tempsamples)
        s5 == Log(s4, <<"batt_temp", temp>>)
        s6 == tahvo_maskset(s5, {"PWMOVR", "PWMOVRZERO"}, {})
        s7 == lipocharge_update_state(s6, mv, ma, temp, alg)
    IN  IF mv < 0 \/ temp < 0 THEN s6
        ELSE IF s7.halted THEN s7
        ELSE IF alg.res # 0 THEN n810bm_stop_charge(s7)
        ELSE s7

\* The body of n810bm_tahvo_current_measure_work between lock and unlock.
n810bm_tahvo_current_measure_work(s, raw, volt, tempsamples, alg) ==
  IF ~lipocharge_is_charging(s) THEN s
  ELSE
    LET s1 == tahvo_maskset(s, {"PWMOVR", "PWMOVRZERO"}, {"PWMOVR"})
        ma == n810bm_measure_batt_current(s1, raw)
        s2 == Log(s1, <<"batt_current", s1.current_measure_enabled, ma>>)
        s3 == tahvo_maskset(s2, {"PWMOVR", "PWMOVRZERO"}, {"PWMOVR", "PWMOVRZERO"})
        mv == n810bm_measure_batt_voltage(volt)
        s4 == Log(Log(s3, <<"msleep", 10>>), <<"batt_voltage", mv>>)
        s5 == tahvo_maskset(s4, {"PWMOVR", "PWMOVRZERO"}, {})
        temp == n810bm_measure_batt_temp(tempsamples)
        s6 == Log(s5, <<"batt_temp", temp>>)
        s7 == lipocharge_update_state(s6, mv, ma, temp, alg)
    IN  IF mv < 0 \/ temp < 0 THEN s6
        ELSE IF s7.halted THEN s7
        ELSE IF alg.res # 0 THEN n810bm_stop_charge(s7)
        ELSE s7

\* ------------------------------------------------------ sysfs attributes

\* DEFINE_STORE_INT_FUNC(charger_enable, charger_enabled): err is the
\* result of strict_strtol, val the parsed number.
n810bm_attr_charger_enable_store(s, err, val) ==
  IF err = 0 THEN [s EXCEPT !.charger_enabled = (val # 0)] ELSE s

n810bm_attr_battery_current_show(s, raw) ==
  IF s.battery_present THEN n810bm_measure_batt_current_async(s, raw) ELSE s

\* ------------------------------------------------------- hardware setup

\* adc_sanity_check on the ground channel: "EIO", "emergency" or "ok"
adc_sanity_check(value) ==
  IF value < 0 THEN "EIO"
  ELSE IF value > 5 THEN "emergency"
  ELSE "ok"

n810bm_hw_init(s, gnd) ==
  LET r == adc_sanity_check(gnd)
      s1 == Log(s, <<"adc_sanity_check", r>>)
  IN  IF r = "emergency" THEN n810bm_emergency(s1, "GND ADC sanity check failed")
      ELSE IF r = "EIO" THEN s1
      ELSE n810bm_stop_charge(s1)

n810bm_hw_exit(s) == Log(n810bm_stop_charge(s), <<"ADCSCR", 0>>)

\* ------------------------------------------------------ calibration block

N810BM_PMM_BLOCK_SIZE == 1536
N810BM_PMM_GROUP_SIZE == 512
N810BM_PMM_ELEM_SIZE == 16

N810BM_PMM_ADC_BATVOLT == 1
N810BM_PMM_ADC_CHGVOLT == 2
N810BM_PMM_ADC_GND2 == 3
N810BM_PMM_ADC_BSI == 4
N810BM_PMM_ADC_BATTEMP == 5
N810BM_PMM_ADC_HEADSET == 6
N810BM_PMM_ADC_HOOKDET == 7
N810BM_PMM_ADC_LIGHTSENS == 8
N810BM_PMM_ADC_BATCURR == 14
N810BM_PMM_ADC_BKUPVOLT == 19
N810BM_PMM_ADC_LIGHTTEMP == 20
N810BM_PMM_ADC_RFGP == 21
N810BM_PMM_ADC_WBTX == 22
N810BM_PMM_ADC_RETUTEMP == 23
N810BM_PMM_ADC_0xFE == 254

\* A u32 is kept as the 32 bit two's complement integer with the same bits.
\* a < b for two u32
U32Lt(a, b) == IF (a < 0) = (b < 0) THEN a < b ELSE b < 0

\* v & mask for the masks extract_group1_elem uses: 0xFFFFFFFF (-1), 0 and 0xFFFF
U32And(v, mask) ==
  IF mask = -1 THEN v
  ELSE IF mask = 0 THEN 0
  ELSE v % (mask + 1)

\* the value of four bytes in little endian order
le32_to_cpu(b) ==
  b[1] + 256 * b[2] + 65536 * b[3]
    + 16777216 * (IF b[4] >= 128 THEN b[4] - 256 ELSE b[4])

\* struct n810bm_adc_calib, zeroed
ZeroSlot ==
  [id |-> 0, flags |-> 0, adc_groupnr |-> 0,
   field1 |-> 0, field2 |-> 0, field3 |-> 0, field4 |-> 0]

CalibSlots == 0..24

\* bm->calib after kzalloc
ZeroCalib == [i \in CalibSlots |-> ZeroSlot]

\* The slot index of a channel id, or -1 for NULL.
n810bm_get_adc_calib(id) ==
  LET index == IF id # N810BM_PMM_ADC_0xFE THEN id + 1 ELSE 0
  IN  IF index >= 25 THEN -1 ELSE index

DefaultSlot(id, flags, adc_groupnr, field1, field2, field3, field4) ==
  [id |-> id, flags |-> flags, adc_groupnr |-> adc_groupnr,
   field1 |-> field1, field2 |-> field2, field3 |-> field3, field4 |-> field4]

\* the defaults[] table of n810bm_adc_calib_set_defaults
CalibDefaults ==
  {DefaultSlot(N810BM_PMM_ADC_HEADSET, 0, 0, 0, 0, 0, 0),
   DefaultSlot(N810BM_PMM_ADC_HOOKDET, 0, 0, 0, 0, 0, 0),
   DefaultSlot(N810BM_PMM_ADC_RFGP, 0, 0, 0, 0, 0, 0),
   DefaultSlot(N810BM_PMM_ADC_LIGHTSENS, 0, 0, 0, 0, 0, 0),
   DefaultSlot(N810BM_PMM_ADC_WBTX, 0, 0, 0, 0, 0, 0),
   DefaultSlot(N810BM_PMM_ADC_RETUTEMP, 0, 0, 0, 0, 0, 0),
   DefaultSlot(N810BM_PMM_ADC_GND2, 0, 0, 0, 0, 0, 0),
   DefaultSlot(N810BM_PMM_ADC_0xFE, 5, 1, -2, 13189, 0, 0),
   DefaultSlot(N810BM_PMM_ADC_BATVOLT, 1, 1, 2527, 21373, 0, 0),
   DefaultSlot(N810BM_PMM_ADC_CHGVOLT, 1, 1, 0, 129848, 0, 0),
   DefaultSlot(N810BM_PMM_ADC_BKUPVOLT, 1, 1, 0, 20000, 0, 0),
   DefaultSlot(N810BM_PMM_ADC_BATCURR, 6, 1, 0, 9660, 0, 0),
   DefaultSlot(N810BM_PMM_ADC_BSI, 2, 2, 1169, 0, 0, 0),
   DefaultSlot(N810BM_PMM_ADC_BATTEMP, 3, 3, 265423000, 298, 0, 0),
   DefaultSlot(N810BM_PMM_ADC_LIGHTTEMP, 4, 4, 19533778, 308019670, 4700, 2500)}

\* The table after n810bm_adc_calib_set_defaults: every slot cleared and
\* flagged 0xFF, then the defaults copied to the slots of their ids.
n810bm_adc_calib_set_defaults ==
  [i \in CalibSlots |->
     IF \E d \in CalibDefaults : n810bm_get_adc_calib(d.id) = i
       THEN CHOOSE d \in CalibDefaults : n810bm_get_adc_calib(d.id) = i
       ELSE [ZeroSlot EXCEPT !.flags = 255]]

\* pmm_record_get of a whole element: the error and the bytes copied. Only
\* group 1 is ever requested; pmm_block.group1 holds its elements.
pmm_record_get(pmm_block, length, group, element, offset) ==
  IF pmm_block.size # N810BM_PMM_BLOCK_SIZE THEN [err |-> "EINVAL"]
  ELSE IF group >= N810BM_PMM_BLOCK_SIZE \div N810BM_PMM_GROUP_SIZE THEN [err |-> "EINVAL"]
  ELSE IF element >= N810BM_PMM_GROUP_SIZE \div N810BM_PMM_ELEM_SIZE THEN [err |-> "EINVAL"]
  ELSE IF \/ offset >= N810BM_PMM_ELEM_SIZE
          \/ length > N810BM_PMM_ELEM_SIZE
          \/ length + offset > N810BM_PMM_ELEM_SIZE THEN [err |-> "EINVAL"]
  ELSE IF ~TestBit(pmm_block.active_group_mask, group) THEN [err |-> "ENOENT"]
  ELSE [err |-> "ok", elem |-> pmm_block.group1[element]]

RECURSIVE extract_group1_elem(_, _, _, _, _)
\* extract_group1_elem over the list pmm_adc_ids: the error and the table
extract_group1_elem(calib, pmm_block, pmm_adc_ids, field1_mask, field2_mask) ==
  IF pmm_adc_ids = <<>> THEN [err |-> "ok", calib |-> calib]
  ELSE
    LET element_nr == Head(pmm_adc_ids) + 3
        rec == pmm_record_get(pmm_block, 12, 1, element_nr, 0)
        adc_calib == n810bm_get_adc_calib(rec.elem.id)
    IN  IF rec.err # "ok"
          THEN extract_group1_elem(calib, pmm_block, Tail(pmm_adc_ids),
                                   field1_mask, field2_mask)
        ELSE IF adc_calib = -1 THEN [err |-> "EINVAL", calib |-> calib]
        ELSE IF calib[adc_calib].flags = rec.elem.flags
          THEN extract_group1_elem(
                 [calib EXCEPT
                    ![adc_calib].field1 = U32And(le32_to_cpu(rec.elem.field1), field1_mask),
                    ![adc_calib].field2 = U32And(le32_to_cpu(rec.elem.field2), field2_mask)],
                 pmm_block, Tail(pmm_adc_ids), field1_mask, field2_mask)
        ELSE extract_group1_elem(calib, pmm_block, Tail(pmm_adc_ids),
                                 field1_mask, field2_mask)

pmm_adc_ids_1 ==
  <<N810BM_PMM_ADC_BATVOLT, N810BM_PMM_ADC_CHGVOLT,
    N810BM_PMM_ADC_BKUPVOLT, N810BM_PMM_ADC_BATCURR>>

pmm_adc_ids_2 == <<N810BM_PMM_ADC_BSI>>

pmm_adc_ids_3 == <<N810BM_PMM_ADC_BATTEMP>>

n810bm_parse_pmm_group1(calib, pmm_block) ==
  LET rec == pmm_record_get(pmm_block, 12, 1, 2, 0)
      elem == rec.elem
      seeded == IF elem.id = N810BM_PMM_ADC_0xFE /\ elem.flags = 5
                  THEN [calib EXCEPT ![n810bm_get_adc_calib(elem.id)] =
                          [@ EXCEPT !.id = elem.id, !.flags = elem.flags,
                                    !.field1 = le32_to_cpu(elem.field1),
                                    !.field2 = le32_to_cpu(elem.field2)]]
                  ELSE calib
      r1 == extract_group1_elem(seeded, pmm_block, pmm_adc_ids_1, -1, -1)
      r2 == extract_group1_elem(r1.calib, pmm_block, pmm_adc_ids_2, -1, 0)
      r3 == extract_group1_elem(r2.calib, pmm_block, pmm_adc_ids_3, -1, 65535)
  IN  IF rec.err # "ok" THEN [err |-> rec.err, calib |-> calib]
      ELSE IF r1.err # "ok" THEN r1
      ELSE IF r2.err # "ok" THEN r2
      ELSE r3

n810bm_parse_pmm_group2(calib, pmm_block) == [err |-> "EOPNOTSUPP", calib |-> calib]

\* one slot fails its range check in n810bm_parse_pmm_block
ValueCheckFail(adc_calib) ==
  /\ adc_calib.flags # 255
  /\ \/ /\ adc_calib.id = N810BM_PMM_ADC_BATVOLT
        /\ \/ U32Lt(adc_calib.field1, 2400) \/ U32Lt(2700, adc_calib.field1)
           \/ U32Lt(adc_calib.field2, 20000) \/ U32Lt(23000, adc_calib.field2)
     \/ /\ adc_calib.id = N810BM_PMM_ADC_BSI
        /\ (U32Lt(adc_calib.field1, 1100) \/ U32Lt(1300, adc_calib.field1))
     \/ /\ adc_calib.id = N810BM_PMM_ADC_BATCURR
        /\ (U32Lt(adc_calib.field2, 7000) \/ U32Lt(12000, adc_calib.field2))
     \/ /\ adc_calib.id = N810BM_PMM_ADC_0xFE
        /\ \/ adc_calib.field1 > 14 \/ adc_calib.field1 < -14
           \/ U32Lt(adc_calib.field2, 13000) \/ U32Lt(13350, adc_calib.field2)

\* the channels the sanity loop counts
RequiredChannels ==
  {N810BM_PMM_ADC_BATVOLT, N810BM_PMM_ADC_BSI, N810BM_PMM_ADC_BATCURR,
   N810BM_PMM_ADC_0xFE, N810BM_PMM_ADC_CHGVOLT, N810BM_PMM_ADC_BATTEMP,
   N810BM_PMM_ADC_BKUPVOLT}

\* count at the end of the sanity loop
SanityCount(calib) ==
  Cardinality({i \in CalibSlots :
                 calib[i].flags # 255 /\ calib[i].id \in RequiredChannels})

\* n810bm_parse_pmm_block: the error and the table it leaves in bm->calib.
\* When a marker read fails err is already nonzero, whatever the byte that
\* was not written holds.
n810bm_parse_pmm_block(pmm_block) ==
  LET calib == n810bm_adc_calib_set_defaults
      m0 == pmm_record_get(pmm_block, 1, 1, 0, 0)
      m1 == pmm_record_get(pmm_block, 1, 1, 1, 0)
      err == \/ m0.err # "ok" \/ m0.elem.id # 1
             \/ m1.err # "ok" \/ m1.elem.id # 1
      r == IF err THEN n810bm_parse_pmm_group2(calib, pmm_block)
           ELSE n810bm_parse_pmm_group1(calib, pmm_block)
  IN  IF r.err # "ok" THEN r
      ELSE IF \E i \in CalibSlots : ValueCheckFail(r.calib[i])
        THEN [err |-> "EILSEQ", calib |-> r.calib]
      ELSE IF SanityCount(r.calib) # 7 THEN [err |-> "EILSEQ", calib |-> r.calib]
      ELSE r

\* a callback that parses the image without looking at its header
n810bm_pmm_block_found_nohdr(calib, fw) ==
  IF ~fw.present THEN [err |-> "notfound", calib |-> calib]
  ELSE n810bm_parse_pmm_block(fw)

\* n810bm_pmm_block_found up to the call of n810bm_device_init: the outcome
\* and bm->calib
n810bm_pmm_block_found(calib, fw) ==
  IF ~fw.present THEN [err |-> "notfound", calib |-> calib]
  ELSE IF fw.size # N810BM_PMM_BLOCK_SIZE \/ fw.magic # "BME-PMM-BLOCK01"
    THEN [err |-> "badformat", calib |-> calib]
  ELSE n810bm_parse_pmm_block(fw)

\* ------------------------------------------------------------- the state

VARIABLES
  m,             \* the machine: struct n810bm and the Tahvo registers
  mutex,         \* bm->mutex: its owner, or "none"
  pc,            \* where each deferred work item and the attribute call is
  life,          \* where probe / firmware callback / remove is
  pending,       \* WORK_STRUCT_PENDING of the three work items
  notify_flags,  \* bm->notify_flags
  attr_op,       \* the attribute handler the attribute call runs
  uaf,           \* a work item ran after kfree(bm)
  nlocal,        \* notify_flags, the local variable of n810bm_notify_work
  emitted,       \* the sysfs_notify calls of the running n810bm_notify_work
  todo,          \* per caller: the steps left of its notify call
  posted,        \* the flags set since n810bm_notify_work last drained them
  fw,            \* the firmware image handed to n810bm_pmm_block_found
  calib,         \* bm->calib
  pmm_err        \* how n810bm_pmm_block_found ended, "pending" before it ran

vars ==
  <<m, mutex, pc, life, pending, notify_flags, attr_op, uaf, nlocal, emitted, todo, posted,
    fw, calib, pmm_err>>

\* what only the firmware callback moves
pvars == <<fw, calib, pmm_err>>

\* what only the step-by-step notification protocol (SpecNotify) moves
nvars == <<nlocal, emitted, todo, posted>>

Works == {"periodic", "currmeas", "notify"}

Handlers == Works \cup {"attr"}

\* the activities that call n810bm_notify_*
Callers == {"periodic", "currmeas", "life"}

\* ------------------------------------------------------------ the inputs

StatusValues == SUBSET {"BATAVAIL", "CHGPLUG"}

\* BSI reads: a 1500 mAh battery, an unknown one, a failing read
BsiSamples == {Rep(949, 5), Rep(970, 5), <<949, 949, -1, 949, 949>>}

\* battery voltage reads: 3199 mV, 3202 mV, a failing read
VoltSamples == {Rep(201, 5), Rep(202, 5), <<202, 202, 202, 202, -1>>}

\* battery voltage reads of the measurement task: 4200 mV, a failing read
ChargeVoltSamples == {Rep(566, 5), <<566, -1, 566, 566, 566>>}

TempSamples == {Rep(300, 3), <<300, -1, 300>>}

CurrRaw == {<<16, 16, 16>>, <<65520, 65520, 65519>>}

GndValues == {-1, 0, 5, 6}

\* what update_state does: the duty cycle it requests (-1: none), its
\* result, and whether it raises the emergency callback instead
AlgOutcomes ==
  [pwm : {-1, 255, 256}, res : {-1, 0, 1}, emergency : {FALSE}]
    \cup {[pwm |-> -1, res |-> 0, emergency |-> TRUE]}

\* lipocharge_start may fail; a failed start leaks a reference, which the
\* model allows below MaxRefcount
StartOutcomes(s) == IF s.current_measure_enabled < MaxRefcount THEN BOOLEAN ELSE {TRUE}

\* What one pass of the monitor reads: the status register always, the BSI
\* channel only when the battery appears, the battery voltage only when
\* draining, the result of lipocharge_start only when charging is started.
\* A read the pass does not make has one value here.
PeriodicInputs(s) ==
  UNION {UNION {LET s1 == PresenceUpdate(s, status, bsi)
                IN  {<<status, bsi, volt, ok>> :
                       volt \in (IF Draining(s1) THEN VoltSamples ELSE {Rep(202, 5)}),
                       ok \in (IF ShouldStartCharge(s1) THEN StartOutcomes(s) ELSE {TRUE})} :
                bsi \in (IF "BATAVAIL" \in status /\ ~s.battery_present
                           THEN BsiSamples ELSE {Rep(949, 5)})} :
         status \in StatusValues}

\* What one run of the measurement task reads: nothing unless charging.
CurrMeasInputs(s) ==
  IF lipocharge_is_charging(s)
    THEN CurrRaw \X ChargeVoltSamples \X TempSamples \X AlgOutcomes
    ELSE {<<<<16, 16, 16>>, Rep(566, 5), Rep(300, 3),
            [pwm |-> -1, res |-> 0, emergency |-> FALSE]>>}

\* the bytes of a u32 in little endian order
cpu_to_le32(v) ==
  <<v % 256, (v \div 256) % 256, (v \div 65536) % 256, (v \div 16777216) % 256>>

\* the bytes of a struct group1_element
Elem(id, flags, adc_groupnr, field1, field2) ==
  [id |-> id, flags |-> flags, adc_groupnr |-> adc_groupnr,
   field1 |-> cpu_to_le32(field1), field2 |-> cpu_to_le32(field2)]

\* the elements of group 1 the parser reads
PmmElems == {0, 1, 2, 4, 5, 7, 8, 17, 22}

\* a well-formed image in the group 1 layout with all values in range
GoodBlob ==
  [present |-> TRUE,
   size |-> 1536,
   magic |-> "BME-PMM-BLOCK01",
   active_group_mask |-> 2,
   group1 |->
     [e \in PmmElems |->
        CASE e = 0 -> Elem(1, 0, 0, 0, 0)
          [] e = 1 -> Elem(1, 0, 0, 0, 0)
          [] e = 2 -> Elem(N810BM_PMM_ADC_0xFE, 5, 1, -3, 13200)
          [] e = 4 -> Elem(N810BM_PMM_ADC_BATVOLT, 1, 1, 2530, 21400)
          [] e = 5 -> Elem(N810BM_PMM_ADC_CHGVOLT, 1, 1, 7, 129900)
          [] e = 7 -> Elem(N810BM_PMM_ADC_BSI, 2, 2, 1170, 99)
          [] e = 8 -> Elem(N810BM_PMM_ADC_BATTEMP, 3, 3, 265423001, 65836)
          [] e = 17 -> Elem(N810BM_PMM_ADC_BATCURR, 6, 1, 3, 9700)
          [] e = 22 -> Elem(N810BM_PMM_ADC_BKUPVOLT, 1, 1, 0, 20010)]]

\* request_firmware_nowait found no image: fw is NULL
NoFw == [present |-> FALSE]

\* images that differ from the good one in size, magic, active groups or
\* the two format markers
HeaderBlobs ==
  {[GoodBlob EXCEPT !.size = size, !.magic = magic, !.active_group_mask = mask,
                    !.group1[0].id = e0, !.group1[1].id = e1] :
     size \in {1535, 1536, 1537}, magic \in {"BME-PMM-BLOCK01", "BME-PMM-BLOCK02"},
     mask \in {0, 2, 5}, e0 \in {0, 1}, e1 \in {0, 1}}

\* values at and one beyond each bound of the range checks
BoundValues ==
  {<<4, 1, 2399>>, <<4, 1, 2400>>, <<4, 1, 2700>>, <<4, 1, 2701>>,
   <<4, 2, 19999>>, <<4, 2, 20000>>, <<4, 2, 23000>>, <<4, 2, 23001>>,
   <<7, 1, 1099>>, <<7, 1, 1100>>, <<7, 1, 1300>>, <<7, 1, 1301>>,
   <<17, 2, 6999>>, <<17, 2, 7000>>, <<17, 2, 12000>>, <<17, 2, 12001>>,
   <<2, 1, -15>>, <<2, 1, -14>>, <<2, 1, 14>>, <<2, 1, 15>>,
   <<2, 2, 12999>>, <<2, 2, 13000>>, <<2, 2, 13350>>, <<2, 2, 13351>>}

\* the good image with field v[2] of element v[1] set to v[3]
WithField(blob, v) ==
  IF v[2] = 1 THEN [blob EXCEPT !.group1[v[1]].field1 = cpu_to_le32(v[3])]
  ELSE [blob EXCEPT !.group1[v[1]].field2 = cpu_to_le32(v[3])]

\* images with one value at or beyond a bound
RangeBlobs == {WithField(GoodBlob, v) : v \in BoundValues}

\* the values one beyond a bound
BeyondValues ==
  {<<4, 1, 2399>>, <<4, 1, 2701>>, <<4, 2, 19999>>, <<4, 2, 23001>>,
   <<7, 1, 1099>>, <<7, 1, 1301>>, <<17, 2, 6999>>, <<17, 2, 12001>>,
   <<2, 1, -15>>, <<2, 1, 15>>, <<2, 2, 12999>>, <<2, 2, 13351>>}

\* images in which exactly one range check fails
BeyondBlobs == {WithField(GoodBlob, v) : v \in BeyondValues}

\* images in which one element carries other flags than its slot, alone or
\* together with a value beyond a bound
FlagsBlobs ==
  {[GoodBlob EXCEPT !.group1[e].flags = 0] : e \in PmmElems \ {0, 1}}
    \cup {[WithField(GoodBlob, v) EXCEPT !.group1[v[1]].flags = 0] : v \in BoundValues}

\* images in which one element carries another id than its position says
IdBlobs ==
  {[GoodBlob EXCEPT !.group1[e].id = id] :
     e \in PmmElems \ {0, 1},
     id \in {0, N810BM_PMM_ADC_BSI, N810BM_PMM_ADC_BATCURR, 24, 32, 255}}

\* images in which the element of one list channel carries the id and the
\* default flags of another
MovedBlobs ==
  {[GoodBlob EXCEPT !.group1[at + 3].id = c,
                    !.group1[at + 3].flags =
                      n810bm_adc_calib_set_defaults[n810bm_get_adc_calib(c)].flags] :
     at \in {N810BM_PMM_ADC_BATVOLT, N810BM_PMM_ADC_BSI, N810BM_PMM_ADC_BATTEMP},
     c \in {N810BM_PMM_ADC_BATVOLT, N810BM_PMM_ADC_CHGVOLT, N810BM_PMM_ADC_BSI,
            N810BM_PMM_ADC_BATCURR}}

PmmBlobs ==
  {NoFw} \cup HeaderBlobs \cup RangeBlobs \cup FlagsBlobs \cup IdBlobs \cup MovedBlobs

\* the images the driver is probed with
ProbeBlobs ==
  {NoFw,
   GoodBlob,
   [GoodBlob EXCEPT !.size = 1535],
   [GoodBlob EXCEPT !.magic = "BME-PMM-BLOCK02"],
   [GoodBlob EXCEPT !.group1[1].id = 0],
   WithField(GoodBlob, <<4, 1, 2399>>),
   [GoodBlob EXCEPT !.group1[7].id = 32]}

\* An empty trace and no queued notify calls: what a handler starts with.
Fresh(s) == [s EXCEPT !.log = <<>>, !.todo = <<>>]

RECURSIVE FlagsAfter(_, _)
\* notify_flags after the set_bit steps of the notify calls td
FlagsAfter(flags, td) ==
  IF td = <<>> THEN flags
  ELSE FlagsAfter(IF Head(td)[1] = "set_bit" THEN SetBit(flags, Head(td)[2]) ELSE flags,
                  Tail(td))

\* What a handler's run leaves behind: the machine and its notify calls.
Outcome(r) == [r EXCEPT !.log = <<>>]

\* The handler's effect on the machine and its notify calls. The trace of
\* a handler is not kept once its body has run.
Commit(r) ==
  /\ m' = Fresh(r)
  /\ notify_flags' = FlagsAfter(notify_flags, r.todo)
  /\ pending' = [pending EXCEPT !["notify"] = @ \/ r.todo # <<>>]

Running == ~m.halted /\ ~uaf

\* the interrupt handler is registered and the attributes exist
Registered == life = "running"

Init ==
  /\ m = ZeroMachine
  /\ mutex = "none"
  /\ pc = [h \in Handlers |-> "idle"]
  /\ life = "probe"
  /\ pending = [w \in Works |-> FALSE]
  /\ notify_flags = 0
  /\ attr_op = "none"
  /\ uaf = FALSE
  /\ nlocal = 0
  /\ emitted = <<>>
  /\ todo = [a \in Callers |-> <<>>]
  /\ posted = {}
  /\ fw = NoFw
  /\ calib = ZeroCalib
  /\ pmm_err = "pending"

\* ------------------------------------------------------ workqueue, mutex

\* schedule_work / schedule_delayed_work: sets the pending bit
schedule_work(w) == pending' = [pending EXCEPT ![w] = TRUE]

\* a worker takes the pending work item w and starts its function
WorkStart(w, first) ==
  /\ Running
  /\ life # "freed"
  /\ pending[w]
  /\ pc[w] = "idle"
  /\ pending' = [pending EXCEPT ![w] = FALSE]
  /\ pc' = [pc EXCEPT ![w] = first]

mutex_lock(a) ==
  /\ mutex = "none"
  /\ mutex' = a

mutex_unlock(a) == mutex' = "none"

\* ------------------------------------------------------ periodic monitor

PeriodicStart ==
  /\ WorkStart("periodic", "lock")
  /\ UNCHANGED <<m, mutex, life, notify_flags, attr_op, uaf, nvars, pvars>>

PeriodicLock ==
  /\ Running
  /\ pc["periodic"] = "lock"
  /\ mutex_lock("periodic")
  /\ pc' = [pc EXCEPT !["periodic"] = "body"]
  /\ UNCHANGED <<m, life, pending, notify_flags, attr_op, uaf, nvars, pvars>>

\* one pass, from after mutex_lock to mutex_unlock
PeriodicBody ==
  /\ Running
  /\ pc["periodic"] = "body"
  /\ \E r \in {Outcome(n810bm_periodic_check_work(Fresh(m), i[1], i[2], i[3], i[4])) :
                 i \in PeriodicInputs(m)} :
       Commit(r)
  /\ mutex_unlock("periodic")
  /\ pc' = [pc EXCEPT !["periodic"] = "resched"]
  /\ UNCHANGED <<life, attr_op, uaf, nvars, pvars>>

PeriodicResched_norearm ==
  /\ Running
  /\ pc["periodic"] = "resched"
  /\ pc' = [pc EXCEPT !["periodic"] = "idle"]
  /\ UNCHANGED <<m, mutex, life, pending, notify_flags, attr_op, uaf, nvars, pvars>>

\* schedule_delayed_work(&bm->periodic_check_work, ...) at the end of a pass
PeriodicResched ==
  /\ Running
  /\ pc["periodic"] = "resched"
  /\ schedule_work("periodic")
  /\ pc' = [pc EXCEPT !["periodic"] = "idle"]
  /\ UNCHANGED <<m, mutex, life, notify_flags, attr_op, uaf, nvars, pvars>>

\* --------------------------------------------------- measurement task

\* n810bm_tahvo_current_measure_irq_handler: ack, schedule the work
IrqHandler ==
  /\ Running
  /\ Registered
  /\ m.irq_enabled
  /\ m.batcurrtimer # 0
  /\ schedule_work("currmeas")
  /\ UNCHANGED <<m, mutex, pc, life, notify_flags, attr_op, uaf, nvars, pvars>>

CurrMeasStart ==
  /\ WorkStart("currmeas", "lock")
  /\ UNCHANGED <<m, mutex, life, notify_flags, attr_op, uaf, nvars, pvars>>

CurrMeasLock_nolock ==
  /\ Running
  /\ pc["currmeas"] = "lock"
  /\ pc' = [pc EXCEPT !["currmeas"] = "body"]
  /\ UNCHANGED <<m, mutex, life, pending, notify_flags, attr_op, uaf, nvars, pvars>>

CurrMeasLock ==
  /\ Running
  /\ pc["currmeas"] = "lock"
  /\ mutex_lock("currmeas")
  /\ pc' = [pc EXCEPT !["currmeas"] = "body"]
  /\ UNCHANGED <<m, life, pending, notify_flags, attr_op, uaf, nvars, pvars>>

\* one run, from after mutex_lock to mutex_unlock
CurrMeasBody ==
  /\ Running
  /\ pc["currmeas"] = "body"
  /\ \E r \in {Outcome(n810bm_tahvo_current_measure_work(Fresh(m), i[1], i[2], i[3], i[4])) :
                 i \in CurrMeasInputs(m)} :
       Commit(r)
  /\ mutex_unlock("currmeas")
  /\ pc' = [pc EXCEPT !["currmeas"] = "idle"]
  /\ UNCHANGED <<life, attr_op, uaf, nvars, pvars>>

\* --------------------------------------------------- notification task

NotifyWorkStart ==
  /\ WorkStart("notify", "xchg")
  /\ UNCHANGED <<m, mutex, life, notify_flags, attr_op, uaf, nvars, pvars>>

\* n810bm_notify_work in one step: the exchange and the do_notify() lines
NotifyWorkRun ==
  /\ Running
  /\ pc["notify"] = "xchg"
  /\ notify_flags' = 0
  /\ pc' = [pc EXCEPT !["notify"] = "idle"]
  /\ UNCHANGED <<m, mutex, life, pending, attr_op, uaf, nvars, pvars>>

\* ------------------------------------------------------ sysfs attributes

AttrOps == {"charger_enable_store", "battery_current_show"}

\* user space reads or writes an attribute
AttrCall ==
  /\ Running
  /\ Registered
  /\ pc["attr"] = "idle"
  /\ \E op \in AttrOps : attr_op' = op
  /\ pc' = [pc EXCEPT !["attr"] = "lock"]
  /\ UNCHANGED <<m, mutex, life, pending, notify_flags, uaf, nvars, pvars>>

AttrLock_nolock ==
  /\ Running
  /\ pc["attr"] = "lock"
  /\ pc' = [pc EXCEPT !["attr"] = "body"]
  /\ UNCHANGED <<m, mutex, life, pending, notify_flags, attr_op, uaf, nvars, pvars>>

AttrLock ==
  /\ Running
  /\ pc["attr"] = "lock"
  /\ mutex_lock("attr")
  /\ pc' = [pc EXCEPT !["attr"] = "body"]
  /\ UNCHANGED <<m, life, pending, notify_flags, attr_op, uaf, nvars, pvars>>

AttrStoreBody ==
  /\ Running
  /\ pc["attr"] = "body"
  /\ attr_op = "charger_enable_store"
  /\ \E err \in {0, -22}, val \in {0, 1} :
       Commit(n810bm_attr_charger_enable_store(Fresh(m), err, val))
  /\ mutex_unlock("attr")
  /\ attr_op' = "none"
  /\ pc' = [pc EXCEPT !["attr"] = "idle"]
  /\ UNCHANGED <<life, uaf, nvars, pvars>>

AttrShowBody ==
  /\ Running
  /\ pc["attr"] = "body"
  /\ attr_op = "battery_current_show"
  /\ \E raw \in CurrRaw :
       Commit(n810bm_attr_battery_current_show(Fresh(m), raw))
  /\ mutex_unlock("attr")
  /\ attr_op' = "none"
  /\ pc' = [pc EXCEPT !["attr"] = "idle"]
  /\ UNCHANGED <<life, uaf, nvars, pvars>>

\* ------------------------------------------------ probe, init and remove

\* a callback that goes on to n810bm_device_init whatever the image
PmmBlockFound_initanyway ==
  /\ Running
  /\ life = "probe"
  /\ \E pmm_block \in ProbeBlobs :
       LET r == n810bm_pmm_block_found(calib, pmm_block)
       IN  /\ fw' = NoFw
           /\ calib' = r.calib
           /\ pmm_err' = r.err
           /\ life' = "hw_init"
  /\ UNCHANGED <<m, mutex, pc, pending, notify_flags, attr_op, uaf, nvars>>

\* n810bm_pmm_block_found: the firmware loader hands over the PMM block
PmmBlockFound ==
  /\ Running
  /\ life = "probe"
  /\ \E pmm_block \in ProbeBlobs :
       LET r == n810bm_pmm_block_found(calib, pmm_block)
       IN  /\ fw' = NoFw
           /\ calib' = r.calib
           /\ pmm_err' = r.err
           /\ life' = IF r.err = "ok" THEN "hw_init" ELSE "failed"
  /\ UNCHANGED <<m, mutex, pc, pending, notify_flags, attr_op, uaf, nvars>>

\* n810bm_check_adc_sanity at the start of n810bm_hw_init
DeviceInitSanity ==
  /\ Running
  /\ life = "hw_init"
  /\ \E gnd \in GndValues :
       LET r == adc_sanity_check(gnd)
       IN  /\ m' = IF r = "emergency"
                     THEN Fresh(n810bm_emergency(m, "GND ADC sanity check failed"))
                     ELSE m
           /\ life' = IF r = "EIO" THEN "cancel_periodic" ELSE "hw_init_stop"
  /\ UNCHANGED <<mutex, pc, pending, notify_flags, attr_op, uaf, nvars, pvars>>

\* n810bm_stop_charge at the end of n810bm_hw_init
DeviceInitStop ==
  /\ Running
  /\ life = "hw_init_stop"
  /\ Commit(n810bm_stop_charge(Fresh(m)))
  /\ life' = "create_attrs"
  /\ UNCHANGED <<mutex, pc, attr_op, uaf, nvars, pvars>>

\* the rest of n810bm_device_init: attribute files, the interrupt, the
\* first schedule of the monitor; ok is whether all of them succeed
DeviceInitFinish ==
  /\ Running
  /\ life = "create_attrs"
  /\ \E ok \in BOOLEAN :
       IF ok
         THEN /\ m' = [m EXCEPT !.irq_enabled = FALSE, !.initialized = TRUE]
              /\ schedule_work("periodic")
              /\ life' = "running"
         ELSE /\ m' = m
              /\ pending' = pending
              /\ life' = "init_hw_exit"
  /\ UNCHANGED <<mutex, pc, notify_flags, attr_op, uaf, nvars, pvars>>

\* err_unwind_attrs: n810bm_hw_exit on the error path of device_init
DeviceInitHwExit ==
  /\ Running
  /\ life = "init_hw_exit"
  /\ Commit(n810bm_hw_exit(Fresh(m)))
  /\ life' = "cancel_periodic"
  /\ UNCHANGED <<mutex, pc, attr_op, uaf, nvars, pvars>>

\* n810bm_device_exit of an initialized device, up to the cancel-and-flush:
\* removing the attribute files waits for a running attribute call
DeviceExitBegin ==
  /\ Running
  /\ life = "running"
  /\ pc["attr"] = "idle"
  /\ m' = lipocharge_exit(m)
  /\ life' = "cancel_periodic"
  /\ UNCHANGED <<mutex, pc, pending, notify_flags, attr_op, uaf, nvars, pvars>>

\* cancel_delayed_work_sync / cancel_work_sync: the work item is neither
\* pending nor running when it returns
\* a cancel that does not wait for the running work item
CancelWork_nowait(w, next) ==
  /\ Running
  /\ life = "cancel_" \o w
  /\ pending' = [pending EXCEPT ![w] = FALSE]
  /\ life' = next
  /\ UNCHANGED <<m, mutex, pc, notify_flags, attr_op, uaf, nvars, pvars>>

CancelWork(w, next) ==
  /\ Running
  /\ life = "cancel_" \o w
  /\ pc[w] = "idle"
  /\ pending' = [pending EXCEPT ![w] = FALSE]
  /\ life' = next
  /\ UNCHANGED <<m, mutex, pc, notify_flags, attr_op, uaf, nvars, pvars>>

CancelPeriodic == CancelWork("periodic", "cancel_notify")

CancelNotify == CancelWork("notify", "cancel_currmeas")

CancelCurrMeas == CancelWork("currmeas", "flush")

\* flush_scheduled_work, the end of n810bm_cancel_and_flush_work
FlushScheduledWork ==
  /\ Running
  /\ life = "flush"
  /\ \A w \in {"notify", "currmeas"} : ~pending[w] /\ pc[w] = "idle"
  /\ life' = IF m.initialized THEN "hw_exit" ELSE "failed"
  /\ UNCHANGED <<m, mutex, pc, pending, notify_flags, attr_op, uaf, nvars, pvars>>

\* n810bm_hw_exit and bm->initialized = 0 in n810bm_device_exit
DeviceExitHwExit ==
  /\ Running
  /\ life = "hw_exit"
  /\ Commit([n810bm_hw_exit(Fresh(m)) EXCEPT !.initialized = FALSE])
  /\ life' = "exited"
  /\ UNCHANGED <<mutex, pc, attr_op, uaf, nvars, pvars>>

\* n810bm_remove: device_exit has returned, kfree(bm)
Remove ==
  /\ Running
  /\ life \in {"exited", "failed"}
  /\ life' = "freed"
  /\ UNCHANGED <<m, mutex, pc, pending, notify_flags, attr_op, uaf, nvars, pvars>>

\* a work item that is still pending or running touches the freed object
UseAfterFree ==
  /\ Running
  /\ life = "freed"
  /\ \E w \in Works : pending[w] \/ pc[w] # "idle"
  /\ uaf' = TRUE
  /\ UNCHANGED <<m, mutex, pc, life, pending, notify_flags, attr_op, nvars, pvars>>

\* ------------------------------------------------------ the specification

Next ==
  \/ PmmBlockFound
  \/ DeviceInitSanity
  \/ DeviceInitStop
  \/ DeviceInitFinish
  \/ DeviceInitHwExit
  \/ DeviceExitBegin
  \/ CancelPeriodic
  \/ CancelNotify
  \/ CancelCurrMeas
  \/ FlushScheduledWork
  \/ DeviceExitHwExit
  \/ Remove
  \/ UseAfterFree
  \/ PeriodicStart
  \/ PeriodicLock
  \/ PeriodicBody
  \/ PeriodicResched
  \/ IrqHandler
  \/ CurrMeasStart
  \/ CurrMeasLock
  \/ CurrMeasBody
  \/ NotifyWorkStart
  \/ NotifyWorkRun
  \/ AttrCall
  \/ AttrLock
  \/ AttrStoreBody
  \/ AttrShowBody

Spec == Init /\ [][Next]_vars

\* ------------------------------------- the notification protocol, by steps

\* a caller enters n810bm_notify_<bit>
NotifyCall(a, bit) ==
  /\ todo[a] = <<>>
  /\ todo' = [todo EXCEPT ![a] = n810bm_notify(Fresh(ZeroMachine), bit).todo]
  /\ UNCHANGED <<m, mutex, pc, life, pending, notify_flags, attr_op, uaf,
                 nlocal, emitted, posted, pvars>>

\* set_bit(N810BM_NOTIFY_..., &bm->notify_flags)
NotifySetBit(a) ==
  /\ todo[a] # <<>>
  /\ Head(todo[a])[1] = "set_bit"
  /\ notify_flags' = SetBit(notify_flags, Head(todo[a])[2])
  /\ posted' = posted \cup {Head(todo[a])[2]}
  /\ todo' = [todo EXCEPT ![a] = Tail(@)]
  /\ UNCHANGED <<m, mutex, pc, life, pending, attr_op, uaf, nlocal, emitted, pvars>>

\* schedule_work(&bm->notify_work)
NotifySchedule(a) ==
  /\ todo[a] # <<>>
  /\ Head(todo[a])[1] = "schedule_work"
  /\ schedule_work("notify")
  /\ todo' = [todo EXCEPT ![a] = Tail(@)]
  /\ UNCHANGED <<m, mutex, pc, life, notify_flags, attr_op, uaf, nlocal, emitted, posted, pvars>>

NotifyWorkXchg_noclear ==
  /\ pc["notify"] = "xchg"
  /\ nlocal' = notify_flags
  /\ posted' = {}
  /\ pc' = [pc EXCEPT !["notify"] = "emit"]
  /\ UNCHANGED <<m, mutex, life, pending, notify_flags, attr_op, uaf, emitted, todo, pvars>>

\* notify_flags = xchg(&bm->notify_flags, 0)
NotifyWorkXchg ==
  /\ pc["notify"] = "xchg"
  /\ nlocal' = notify_flags
  /\ notify_flags' = 0
  /\ posted' = {}
  /\ pc' = [pc EXCEPT !["notify"] = "emit"]
  /\ UNCHANGED <<m, mutex, life, pending, attr_op, uaf, emitted, todo, pvars>>

\* the three do_notify() lines
NotifyWorkEmit ==
  /\ pc["notify"] = "emit"
  /\ emitted' = do_notify(nlocal)
  /\ pc' = [pc EXCEPT !["notify"] = "done"]
  /\ UNCHANGED <<m, mutex, life, pending, notify_flags, attr_op, uaf, nlocal, todo, posted, pvars>>

\* n810bm_notify_work returns
NotifyWorkReturn ==
  /\ pc["notify"] = "done"
  /\ emitted' = <<>>
  /\ nlocal' = 0
  /\ pc' = [pc EXCEPT !["notify"] = "idle"]
  /\ UNCHANGED <<m, mutex, life, pending, notify_flags, attr_op, uaf, todo, posted, pvars>>

NextNotify ==
  \/ \E a \in Callers, bit \in NotifyBits : NotifyCall(a, bit)
  \/ \E a \in Callers : NotifySetBit(a)
  \/ \E a \in Callers : NotifySchedule(a)
  \/ NotifyWorkStart
  \/ NotifyWorkXchg
  \/ NotifyWorkEmit
  \/ NotifyWorkReturn

SpecNotify == Init /\ [][NextNotify]_vars

\* ------------------------------------------------------------ properties

Bits(flags) == {k \in NotifyBits : TestBit(flags, k)}

Range(seq) == {seq[i] : i \in 1..Len(seq)}

\* the positions of the events of one kind in a handler's trace
Events(log, kind) == {i \in 1..Len(log) : log[i][1] = kind}

\* what the pass that is about to run can do to the machine
PeriodicResults ==
  IF pc["periodic"] = "body" /\ Running
    THEN {n810bm_periodic_check_work(Fresh(m), i[1], i[2], i[3], i[4]) :
            i \in PeriodicInputs(m)}
    ELSE {}

\* what the measurement task that is about to run can do to the machine
CurrMeasResults ==
  IF pc["currmeas"] = "body" /\ Running
    THEN {n810bm_tahvo_current_measure_work(Fresh(m), i[1], i[2], i[3], i[4]) :
            i \in CurrMeasInputs(m)}
    ELSE {}

\* what the attribute call that is about to run can do to the machine
AttrResults ==
  IF pc["attr"] = "body" /\ Running
    THEN IF attr_op = "charger_enable_store"
           THEN {n810bm_attr_charger_enable_store(Fresh(m), err, val) :
                   err \in {0, -22}, val \in {0, 1}}
           ELSE {n810bm_attr_battery_current_show(Fresh(m), raw) : raw \in CurrRaw}
    ELSE {}

\* what the init or exit step that is about to run can do to the machine
LifeResults ==
  IF ~Running THEN {}
  ELSE IF life = "hw_init_stop" THEN {n810bm_stop_charge(Fresh(m))}
  ELSE IF life \in {"init_hw_exit", "hw_exit"} THEN {n810bm_hw_exit(Fresh(m))}
  ELSE {}

HandlerResults == PeriodicResults \cup CurrMeasResults \cup AttrResults \cup LifeResults

KnownCapacity(s) == s.capacity = N810BM_CAP_1500MAH

\* C1: every invocation of n810bm_start_charge, by any handler from any
\* reachable state, is made with battery_present, charger_present and
\* charger_enabled true and capacity Known (1500 mAh).
C1_StartChargePrecondition ==
  \A r \in HandlerResults :
    \A i \in Events(r.log, "start_charge") :
      /\ r.log[i][2]
      /\ r.log[i][3]
      /\ r.log[i][4]
      /\ r.log[i][5] = N810BM_CAP_1500MAH

\* a pass has just started the charge
C1_Witness ==
  /\ pc["periodic"] = "resched"
  /\ m.charging
  /\ m.irq_enabled
  /\ m.charger_enabled

\* the discharging condition as the claim words it, on the sampled state
Discharging(s) ==
  \/ (s.battery_present /\ ~s.charger_present)
  \/ ~(s.battery_present /\ KnownCapacity(s))

\* C2: in every monitor pass in which the discharging condition holds after
\* the presence bits are sampled, the battery voltage is measured once and
\* the Emergency path is invoked exactly once if the read fails or the
\* result is below 3200 mV (so at 3199 mV), and not at all otherwise.
C2_EmergencyIffBelowFloor ==
  \A r \in PeriodicResults :
    Discharging(r) =>
      /\ Cardinality(Events(r.log, "batt_voltage")) = 1
      /\ \A i \in Events(r.log, "batt_voltage") :
           LET mv == r.log[i][2]
           IN  /\ (mv < 0 \/ mv < 3200) =>
                    Cardinality(Events(r.log, "emergency")) = 1 /\ r.halted
               /\ mv >= 3200 =>
                    Events(r.log, "emergency") = {} /\ ~r.halted
               /\ mv = 3199 => Cardinality(Events(r.log, "emergency")) = 1

\* a pass with no known battery has ended in the Emergency path
C2_Witness ==
  /\ pc["periodic"] = "resched"
  /\ m.halted
  /\ Discharging(m)
  /\ ~m.battery_present

C4_PwmImpliesCharging ==
  mutex = "none" => (m.active_current_pwm > 0 => lipocharge_is_charging(m))

\* the algorithm has set a duty cycle and the charge goes on
C4_Witness ==
  /\ mutex = "none"
  /\ m.active_current_pwm > 0
  /\ m.charging

\* the function of the work item is executing
InBody(w) == IF w = "notify" THEN pc[w] = "xchg" ELSE pc[w] = "body"

\* C5 as stated: no two of the periodic monitor, the measurement task and
\* the notification task execute their bodies at the same time, each of
\* them holding the mutex.
C5_Original ==
  /\ Cardinality({w \in Works : InBody(w)}) <= 1
  /\ \A w \in Works : InBody(w) => mutex = w

\* C5 amended: the periodic monitor and the measurement task never execute
\* their bodies at the same time, each holding the mutex while it does; the
\* notification task takes no mutex.
C5_MonitorAndMeasureExclusive ==
  /\ ~(InBody("periodic") /\ InBody("currmeas"))
  /\ \A w \in {"periodic", "currmeas"} : InBody(w) => mutex = w
  /\ mutex # "notify"

\* the measurement task waits for the mutex the monitor holds
C5_Witness ==
  /\ pc["periodic"] = "body"
  /\ pc["currmeas"] = "lock"
  /\ mutex = "periodic"

\* init and exit call n810bm_stop_charge without the mutex
UnlockedStop == life \in {"hw_init_stop", "init_hw_exit", "hw_exit"}

\* the activities that are inside a sequence of charger register writes
InSequence ==
  {h \in {"periodic", "currmeas", "attr"} : pc[h] = "body"}
    \cup (IF UnlockedStop THEN {"life"} ELSE {})

\* C6 as stated: every execution of start_charge, stop_charge, the PWM
\* setter and the PWM-override sequences runs while the executing activity
\* holds the mutex.
C6_Original ==
  \A a \in InSequence : mutex = a

\* C6 amended: the monitor, the measurement task and the attribute handlers
\* run these sequences holding the mutex; n810bm_stop_charge in hw_init and
\* hw_exit runs without it, at points where no other activity that writes
\* charger registers is pending, waiting or running; so at most one
\* activity is inside such a sequence at any time.
C6_SequencesSerialized ==
  /\ \A h \in InSequence \ {"life"} : mutex = h
  /\ Cardinality(InSequence) <= 1
  /\ UnlockedStop =>
       /\ mutex = "none"
       /\ \A h \in {"periodic", "currmeas", "attr"} : pc[h] = "idle"
       /\ ~pending["periodic"] /\ ~pending["currmeas"]

\* a battery_current read holds the mutex while the measurement task waits
C6_Witness ==
  /\ pc["attr"] = "body"
  /\ attr_op = "battery_current_show"
  /\ m.charging
  /\ pc["currmeas"] = "lock"

\* the callers that have set their flag and not yet scheduled the task
AboutToSchedule ==
  {a \in Callers : todo[a] # <<>> /\ Head(todo[a])[1] = "schedule_work"}

\* C7: no notification is lost or duplicated under any interleaving of the
\* notify calls with the notification task: a flag that is set is always
\* followed by a run of the task that has not drained yet, the flag word
\* holds exactly the flags set since the last drain, and a run emits only
\* flags it drained.
C7_NoNotificationLost ==
  /\ notify_flags # 0 =>
       (pending["notify"] \/ pc["notify"] = "xchg" \/ AboutToSchedule # {})
  /\ Bits(notify_flags) = posted
  /\ Range(emitted) \subseteq Bits(nlocal)
  /\ pc["notify"] = "done" => Range(emitted) = Bits(nlocal)

\* a flag was set again while the task was between its drain and its emits
C7_Witness ==
  /\ pc["notify"] = "emit"
  /\ TestBit(nlocal, N810BM_NOTIFY_charger_pwm)
  /\ TestBit(notify_flags, N810BM_NOTIFY_charger_pwm)
  /\ pending["notify"]

\* C8: one run of the notification task that drained the flag set S emits
\* exactly one notification for each flag of S and none else, in the order
\* charger_present, charger_state, charger_pwm, and leaves no flag of S
\* pending unless it was set again after the drain; with S empty it emits
\* nothing.
C8_OneEmissionPerFlag ==
  pc["notify"] = "done" =>
    /\ Len(emitted) = Cardinality(Bits(nlocal))
    /\ Range(emitted) = Bits(nlocal)
    /\ \A i, j \in 1..Len(emitted) : i < j => emitted[i] < emitted[j]
    /\ \A k \in Bits(nlocal) : k \notin posted => ~TestBit(notify_flags, k)
    /\ nlocal = 0 => emitted = <<>>

\* a run with two flags pending has emitted two notifications
C8_Witness ==
  /\ pc["notify"] = "done"
  /\ Len(emitted) = 2
  /\ notify_flags = 0

\* the preconditions of n810bm_start_charge
StartPreconditions(s) ==
  s.battery_present /\ s.charger_present /\ KnownCapacity(s)

\* C9 as stated: from every state that satisfies the preconditions of
\* start_charge and for every outcome of the algorithm's start operation,
\* start_charge followed immediately by stop_charge leaves
\* active_current_pwm 0 and current_measure_refcount as it was.
C9_Original ==
  (Running /\ StartPreconditions(m)) =>
    \A ok \in StartOutcomes(m) :
      LET s2 == n810bm_stop_charge(n810bm_start_charge(Fresh(m), ok))
      IN  /\ s2.active_current_pwm = 0
          /\ s2.current_measure_enabled = m.current_measure_enabled

\* C10: n810bm_stop_charge on an idle controller neither writes the timer
\* nor changes current_measure_refcount; it always leaves charging false,
\* active_current_pwm 0 and the enable and override bits cleared; a second
\* call changes nothing and posts the same two notifications again.
C10_StopChargeIdempotent ==
  LET s1 == n810bm_stop_charge(Fresh(m))
      s2 == n810bm_stop_charge(Fresh(s1))
  IN  /\ ~lipocharge_is_charging(m) =>
           /\ s1.current_measure_enabled = m.current_measure_enabled
           /\ Events(s1.log, "BATCURRTIMER") = {}
           /\ s1.batcurrtimer = m.batcurrtimer
           /\ s1.irq_enabled = m.irq_enabled
      /\ ~lipocharge_is_charging(s1)
      /\ s1.active_current_pwm = 0
      /\ s1.chgcurr = 0
      /\ s1.chgctl \cap {"EN", "PWMOVR", "PWMOVRZERO"} = {}
      /\ Fresh(s2) = Fresh(s1)
      /\ s2.todo = s1.todo
      /\ Events(s2.log, "BATCURRTIMER") = {}

\* hw_init and then hw_exit have both stopped the charge of an idle controller
C10_Witness ==
  /\ life = "cancel_periodic"
  /\ ~m.initialized
  /\ ~m.charging
  /\ TestBit(notify_flags, N810BM_NOTIFY_charger_state)
  /\ pc["notify"] = "xchg"

\* ------------------------------------------- current measurement refcount

MaxCalls == 8

\* the calls made so far, as the trace records them
Calls(log) == {i \in 1..Len(log) : log[i][1] = "call"}

\* a caller enables current measurement
EnableCall ==
  /\ Cardinality(Calls(m.log)) < MaxCalls
  /\ m' = n810bm_enable_current_measure(Log(m, <<"call", "enable">>))
  /\ UNCHANGED <<mutex, pc, life, pending, notify_flags, attr_op, uaf, nvars, pvars>>

\* a caller that holds a reference disables current measurement
DisableCall ==
  /\ Cardinality(Calls(m.log)) < MaxCalls
  /\ m.current_measure_enabled > 0
  /\ m' = n810bm_disable_current_measure(Log(m, <<"call", "disable">>))
  /\ UNCHANGED <<mutex, pc, life, pending, notify_flags, attr_op, uaf, nvars, pvars>>

NextRefcount ==
  \/ EnableCall
  \/ DisableCall

SpecRefcount == Init /\ [][NextRefcount]_vars

\* enables minus disables among the first i entries of the trace
Balance(log, i) ==
  Cardinality({j \in Calls(log) : j <= i /\ log[j][2] = "enable"})
    - Cardinality({j \in Calls(log) : j <= i /\ log[j][2] = "disable"})

\* C11: after any sequence of enable and disable calls in which no prefix
\* has more disables than enables, the count is the number of enables minus
\* the number of disables and is never negative, the circuitry bit is set
\* iff the count is > 0, and the bit is written only by the enable that
\* takes the count from 0 to 1 (set) and by the disable that takes it from
\* 1 to 0 (cleared).
C11_StrictRefcount ==
  /\ m.current_measure_enabled >= 0
  /\ m.current_measure_enabled = Balance(m.log, Len(m.log))
  /\ ("CURMEAS" \in m.chgctl) <=> (m.current_measure_enabled > 0)
  /\ \A i \in 1..Len(m.log) :
       m.log[i][1] = "CHGCTL" =>
         /\ i > 1
         /\ m.log[i - 1][1] = "call"
         /\ m.log[i][2] = {"CURMEAS"}
         /\ IF m.log[i][3] = {"CURMEAS"}
              THEN m.log[i - 1][2] = "enable" /\ Balance(m.log, i) = 1
              ELSE m.log[i - 1][2] = "disable" /\ Balance(m.log, i) = 0
  /\ \A i \in Calls(m.log) :
       (\/ (m.log[i][2] = "enable" /\ Balance(m.log, i) = 1)
        \/ (m.log[i][2] = "disable" /\ Balance(m.log, i) = 0))
         => (i < Len(m.log) /\ m.log[i + 1][1] = "CHGCTL")

\* enable, enable, disable: one reference is left and the circuitry is on
C11_Witness ==
  /\ Cardinality(Calls(m.log)) = 3
  /\ m.log[Len(m.log)] = <<"call", "disable">>
  /\ m.current_measure_enabled = 1
  /\ "CURMEAS" \in m.chgctl

\* ------------------------------------------------- properties, continued

\* an attribute read of battery_current is about to sample
AboutToShowCurrent ==
  pc["attr"] = "body" /\ attr_op = "battery_current_show" /\ Running

\* C12: whenever the battery current is sampled, by
\* n810bm_measure_batt_current_async or by the measurement task, the
\* reference count is > 0 at the moment of sampling; and
\* n810bm_measure_batt_current_async samples once and returns with the
\* count it was entered with, charging or not.
C12_SamplingHoldsReference ==
  /\ \A r \in AttrResults :
       /\ \A i \in Events(r.log, "batt_current") : r.log[i][2] > 0
       /\ AboutToShowCurrent =>
            /\ Cardinality(Events(r.log, "batt_current")) = (IF m.battery_present THEN 1 ELSE 0)
            /\ r.current_measure_enabled = m.current_measure_enabled
  /\ \A r \in CurrMeasResults :
       /\ \A i \in Events(r.log, "batt_current") : r.log[i][2] > 0
       /\ m.charging => Cardinality(Events(r.log, "batt_current")) = 1

\* battery_current is read while idle with no reference held, and the
\* measurement task is about to sample on a charging controller
C12_Witness ==
  \/ (AboutToShowCurrent /\ m.battery_present /\ ~m.charging
        /\ m.current_measure_enabled = 0)
  \/ (pc["currmeas"] = "body" /\ m.charging /\ m.current_measure_enabled = 1)

\* C13: whenever no activity holds the mutex, capacity is not Known
\* (1500 mAh) while battery_present is false.
C13_NoCapacityWithoutBattery ==
  mutex = "none" => ~(KnownCapacity(m) /\ ~m.battery_present)

\* a pass has seen the battery of a charging controller removed
C13_Witness ==
  /\ mutex = "none"
  /\ pc["periodic"] = "resched"
  /\ ~m.battery_present
  /\ m.capacity = N810BM_CAP_NONE
  /\ m.charging

\* the work item is neither pending nor running
Dead(w) == ~pending[w] /\ pc[w] = "idle"

\* one step of init, teardown or remove
C14_Step ==
  /\ (life = "running" /\ life' # life) =>
       (m.initialized /\ life' = "cancel_periodic")
  /\ (life = "cancel_periodic" /\ life' # life) =>
       (life' = "cancel_notify" /\ Dead("periodic")')
  /\ (life = "cancel_notify" /\ life' # life) =>
       (life' = "cancel_currmeas" /\ Dead("periodic")' /\ Dead("notify")')
  /\ (life = "cancel_currmeas" /\ life' # life) =>
       (life' = "flush" /\ Dead("periodic")' /\ Dead("currmeas")')
  /\ (life = "flush" /\ life' # life) =>
       /\ \A w \in Works : Dead(w) /\ Dead(w)'
       /\ life' = IF m.initialized THEN "hw_exit" ELSE "failed"
       /\ m' = m
  /\ (life = "hw_exit" /\ life' # life) =>
       /\ \A w \in Works : Dead(w)
       /\ m.initialized
       /\ life' = "exited"
       /\ m' = [Fresh(n810bm_hw_exit(Fresh(m))) EXCEPT !.initialized = FALSE]
  /\ (life = "failed" /\ life' # life) =>
       /\ ~m.initialized
       /\ life' = "freed"
       /\ m' = m /\ pending' = pending /\ notify_flags' = notify_flags

\* C14: teardown of an initialized controller cancels and waits for the
\* periodic monitor, then the notification task, then the measurement
\* task; none of the three is pending or running when n810bm_hw_exit
\* releases the hardware; on a controller that is not initialized teardown
\* touches neither the machine nor the work items.
C14_TeardownOrder == [][C14_Step]_vars

\* teardown of a charging controller has cancelled the three work items
\* and is about to release the hardware
C14_Witness ==
  /\ life = "hw_exit"
  /\ m.initialized
  /\ m.charging
  /\ \A w \in Works : Dead(w)

\* ------------------------------------------- the firmware callback, alone

\* the firmware loader has fetched any of the images
FirmwareLoaded ==
  /\ pmm_err = "pending"
  /\ fw = NoFw
  /\ \E pmm_block \in PmmBlobs \ {NoFw} : fw' = pmm_block
  /\ UNCHANGED <<m, mutex, pc, life, pending, notify_flags, attr_op, uaf, nvars,
                 calib, pmm_err>>

\* n810bm_pmm_block_found up to n810bm_device_init, on the image fetched or
\* on none; the image is released
PmmBlockFoundAny ==
  /\ pmm_err = "pending"
  /\ LET r == n810bm_pmm_block_found(calib, fw)
     IN  /\ calib' = r.calib
         /\ pmm_err' = r.err
  /\ fw' = NoFw
  /\ UNCHANGED <<m, mutex, pc, life, pending, notify_flags, attr_op, uaf, nvars>>

NextPmm ==
  \/ FirmwareLoaded
  \/ PmmBlockFoundAny

SpecPmm == Init /\ [][NextPmm]_vars

\* ------------------------------------------------- properties, continued

\* the image is missing, has a wrong size or magic, or fails the parse
BadImage(pmm_block) ==
  \/ ~pmm_block.present
  \/ pmm_block.size # 1536
  \/ pmm_block.magic # "BME-PMM-BLOCK01"
  \/ n810bm_parse_pmm_block(pmm_block).err # "ok"

\* C15: the periodic monitor is scheduled and the current-measurement
\* interrupt handler is registered only after the image was fetched, passed
\* the header check and was parsed successfully: every image that is
\* missing, has a wrong size or magic or fails the parse ends the callback
\* with an error, and unless the callback ended without error initialized
\* is false, no monitor or measurement task is pending or running, the
\* interrupt handler is not registered and n810bm_start_charge is not called.
C15_InitOnlyAfterParse ==
  /\ life = "probe" =>
       \A pmm_block \in ProbeBlobs :
         BadImage(pmm_block) => n810bm_pmm_block_found(calib, pmm_block).err # "ok"
  /\ pmm_err # "ok" =>
       /\ ~m.initialized
       /\ Dead("periodic") /\ Dead("currmeas")
       /\ ~Registered
       /\ ~m.charging
       /\ m.current_measure_enabled = 0
       /\ \A r \in HandlerResults : Events(r.log, "start_charge") = {}
  /\ pmm_err \notin {"pending", "ok"} => life \in {"failed", "freed"}

\* an image with a value out of range was rejected and the driver removed
C15_Witness ==
  /\ pmm_err = "EILSEQ"
  /\ life = "freed"
  /\ ~m.initialized

\* the image fetched is about to be handed to n810bm_pmm_block_found
AboutToParse ==
  /\ pmm_err = "pending"
  /\ fw.present

\* C16 (as stated): parsing an image in which a single range check fails
\* ends with the range error and leaves the calibration table exactly as it
\* was before the parse began.
C16_Original ==
  AboutToParse =>
    LET r == n810bm_pmm_block_found(calib, fw)
    IN  /\ fw \in BeyondBlobs => r.err = "EILSEQ"
        /\ r.err = "EILSEQ" => r.calib = calib

\* C17: an image whose size is not 1536 bytes or whose first 15 bytes are
\* not "BME-PMM-BLOCK01" is always rejected with the header-format error
\* and no calibration slot is modified.
C17_HeaderRejected ==
  /\ (AboutToParse /\ (fw.size # 1536 \/ fw.magic # "BME-PMM-BLOCK01")) =>
       LET r == n810bm_pmm_block_found(calib, fw)
       IN  /\ r.err = "badformat"
           /\ r.calib = calib
  /\ pmm_err = "badformat" => calib = ZeroCalib

\* an image was rejected for its header, the table still all zero
C17_Witness ==
  /\ pmm_err = "badformat"
  /\ calib = ZeroCalib
  /\ fw = NoFw

\* the first n entries of a trace, by kind
Kinds(log, n) == [i \in 1..n |-> log[i][1]]

\* the override bits of the charge control register
PwmOverride == {"PWMOVR", "PWMOVRZERO"}

\* the measurement task is about to run its body, the mutex held
AboutToMeasure ==
  /\ pc["currmeas"] = "body"
  /\ Running
  /\ mutex = "currmeas"

\* C18 (as stated): holding the lock and only if still charging the
\* measurement task forces PWM-override, samples the current, forces
\* PWM-override-zero, waits, samples the voltage, samples the temperature,
\* restores the PWM override and feeds the algorithm, in this order; if not
\* charging it writes no register and does not call the algorithm.
C18_Original ==
  AboutToMeasure =>
    \A r \in CurrMeasResults :
      IF m.charging
        THEN /\ Len(r.log) >= 8
             /\ Kinds(r.log, 8) = <<"CHGCTL", "batt_current", "CHGCTL", "msleep",
                                    "batt_voltage", "batt_temp", "CHGCTL", "update_state">>
        ELSE r = Fresh(m)

\* C18 (amended): holding the lock and only if still charging the
\* measurement task forces PWM-override, samples the current, forces
\* PWM-override-zero, waits 10 ms, samples the voltage, restores the PWM
\* override to normal, samples the temperature and, only if neither the
\* voltage nor the temperature read failed, feeds (voltage, current,
\* temperature) to the algorithm; if not charging it writes no register,
\* samples nothing and does not call the algorithm.
C18_MeasurementSteps ==
  /\ pc["currmeas"] = "body" /\ Running => mutex = "currmeas"
  /\ AboutToMeasure =>
       \A r \in CurrMeasResults :
         IF m.charging
           THEN /\ Len(r.log) >= 7
                /\ Kinds(r.log, 7) = <<"CHGCTL", "batt_current", "CHGCTL", "msleep",
                                       "batt_voltage", "CHGCTL", "batt_temp">>
                /\ r.log[1] = <<"CHGCTL", PwmOverride, {"PWMOVR"}>>
                /\ r.log[3] = <<"CHGCTL", PwmOverride, PwmOverride>>
                /\ r.log[4] = <<"msleep", 10>>
                /\ r.log[6] = <<"CHGCTL", PwmOverride, {}>>
                /\ IF r.log[5][2] >= 0 /\ r.log[7][2] >= 0
                     THEN /\ Len(r.log) >= 8
                          /\ Events(r.log, "update_state") = {8}
                          /\ r.log[8] = <<"update_state", r.log[5][2], r.log[2][3], r.log[7][2]>>
                     ELSE /\ Len(r.log) = 7
                          /\ r = [Fresh(m) EXCEPT !.log = r.log]
           ELSE r = Fresh(m)

\* a measurement about to run while charging, one of its outcomes feeding
\* the algorithm and one skipping it for a failed read
C18_Witness ==
  /\ AboutToMeasure
  /\ m.charging
  /\ \E r \in CurrMeasResults : Events(r.log, "update_state") # {}
  /\ \E r \in CurrMeasResults : Events(r.log, "update_state") = {}

\* a measurement about to run after charging was stopped
C18_WitnessIdle ==
  /\ AboutToMeasure
  /\ ~m.charging

\* ------------------------------------------- the capacity read, alone

\* BSI levels around the two ends of the band and far from it
BsiLevels == {0, 1, 500, 927, 928, 929, 930, 948, 949, 950, 968, 969, 970, 971, 1023}

\* five reads of the BSI channel: four at a level and one near it, or one
\* of the five failing with -EIO or -ETIMEDOUT
BsiReads ==
  {[i \in 1..5 |-> IF i = k THEN v + d ELSE v] :
     v \in BsiLevels \ {0, 1, 1023}, d \in -4..4, k \in {1, 5}}
    \cup {Rep(v, 5) : v \in BsiLevels}
    \cup {[i \in 1..5 |-> IF i = k THEN e ELSE 949] : k \in 1..5, e \in {-5, -110}}

\* n810bm_read_batt_capacity on any five reads, the reads and the class kept
\* in the trace
ReadBattCapacity ==
  /\ m.log = <<>>
  /\ \E samples \in BsiReads :
       LET capacity == n810bm_read_batt_capacity(samples)
       IN  m' = Log([m EXCEPT !.capacity = capacity],
                    <<"read_batt_capacity", samples, capacity>>)
  /\ UNCHANGED <<mutex, pc, life, pending, notify_flags, attr_op, uaf, nvars, pvars>>

NextCapacity == ReadBattCapacity

SpecCapacity == Init /\ [][NextCapacity]_vars

\* the reads of the capacity read in the trace
BsiRead == m.log[1][2]

\* the mean of five reads, rounded down
BsiMean == (BsiRead[1] + BsiRead[2] + BsiRead[3] + BsiRead[4] + BsiRead[5]) \div 5

\* C19: the capacity read returns 1500 mAh for every averaged BSI reading r
\* with 0x3B5 - 20 <= r <= 0x3B5 + 20, and unknown for 0x3B5 - 21, for
\* 0x3B5 + 21, for every other reading, and when any of the five reads fails.
C19_CapacityBand ==
  m.log # <<>> =>
    /\ m.capacity = m.log[1][3]
    /\ IF \E i \in 1..5 : BsiRead[i] < 0
         THEN m.capacity = N810BM_CAP_UNKNOWN
         ELSE IF 929 <= BsiMean /\ BsiMean <= 969
           THEN m.capacity = N810BM_CAP_1500MAH
           ELSE m.capacity = N810BM_CAP_UNKNOWN
    /\ (\A i \in 1..5 : BsiRead[i] >= 0) /\ BsiMean \in {928, 970}
         => m.capacity = N810BM_CAP_UNKNOWN

\* five unequal reads whose mean is the upper end of the band gave 1500 mAh
C19_Witness ==
  /\ m.log # <<>>
  /\ \A i \in 1..5 : BsiRead[i] >= 0
  /\ BsiRead[1] # BsiRead[5]
  /\ BsiMean = 969
  /\ m.capacity = N810BM_CAP_1500MAH

\* ------------------------------------------------- properties, continued

\* C20: every monitor pass that does not end in the emergency path and in
\* which charging is active while the charger is sampled as absent calls
\* n810bm_stop_charge once, so that at the end of the pass charging is
\* false, active_current_pwm and the charge current register are 0, the
\* current-measurement timer is disarmed (timer register 0, interrupt
\* masked) and the global-enable bit is cleared.
C20_UnplugStopsCharge ==
  (pc["periodic"] = "body" /\ Running /\ m.charging) =>
    \A r \in PeriodicResults :
      (~r.halted /\ ~r.charger_present) =>
        /\ Cardinality(Events(r.log, "stop_charge")) = 1
        /\ Events(r.log, "start_charge") = {}
        /\ ~r.charging
        /\ r.active_current_pwm = 0
        /\ r.chgcurr = 0
        /\ r.batcurrtimer = 0
        /\ ~r.irq_enabled
        /\ "EN" \notin r.chgctl

\* a pass about to run while charging with the PWM in use, one of its
\* outcomes sampling the charger as absent without emergency
C20_Witness ==
  /\ pc["periodic"] = "body"
  /\ Running
  /\ m.charging
  /\ m.active_current_pwm > 0
  /\ "EN" \in m.chgctl
  /\ m.irq_enabled
  /\ \E r \in PeriodicResults : ~r.halted /\ ~r.charger_present /\ ~r.charging

\* ------------------------------------------- the driver while it is bound

\* The driver from probe on, never removed: the firmware callback, device
\* init, the monitor, the interrupt, the measurement task and the attribute
\* calls. n810bm_notify_work is left pending: it takes no mutex and touches
\* nothing of struct n810bm but notify_flags.
NextRun ==
  \/ PmmBlockFound
  \/ DeviceInitSanity
  \/ DeviceInitStop
  \/ DeviceInitFinish
  \/ DeviceInitHwExit
  \/ PeriodicStart
  \/ PeriodicLock
  \/ PeriodicBody
  \/ PeriodicResched
  \/ IrqHandler
  \/ CurrMeasStart
  \/ CurrMeasLock
  \/ CurrMeasBody
  \/ AttrCall
  \/ AttrLock
  \/ AttrStoreBody
  \/ AttrShowBody

SpecRun == Init /\ [][NextRun]_vars

\* ------------------------------------------------- properties, continued

\* what a pass run on machine s can do to it
PassResults(s) ==
  {n810bm_periodic_check_work(Fresh(s), i[1], i[2], i[3], i[4]) : i \in PeriodicInputs(s)}

\* the pass may start the charge: its condition on the sampled state r of a
\* pass entered in state s
MayStart(s, r) ==
  /\ ~r.halted
  /\ r.charger_present
  /\ r.battery_present
  /\ KnownCapacity(r)
  /\ s.charger_enabled
  /\ ~s.charging

C22_StopIffNonzeroResult ==
  AboutToMeasure =>
    \A i \in CurrMeasInputs(m) :
      LET r == n810bm_tahvo_current_measure_work(Fresh(m), i[1], i[2], i[3], i[4])
          res == i[4].res
          updated == Events(r.log, "update_state") # {}
          stopped == Events(r.log, "stop_charge") # {}
      IN  \/ r.halted
          \/ /\ stopped <=> (updated /\ res # 0)
             /\ Cardinality(Events(r.log, "stop_charge")) <= 1
             /\ (updated /\ res = 0) =>
                  /\ r.charging
                  /\ r.irq_enabled
                  /\ r.batcurrtimer = m.batcurrtimer
                  /\ r.current_measure_enabled = m.current_measure_enabled
             /\ (updated /\ res # 0) =>
                  /\ ~r.charging
                  /\ r.active_current_pwm = 0

\* the measurement task is about to run on a charging controller with a
\* duty cycle set; its outcomes include going on and stopping on full and
\* on fault
C22_Witness ==
  /\ AboutToMeasure
  /\ m.charging
  /\ m.active_current_pwm > 0
  /\ m.irq_enabled
  /\ \A res \in {-1, 0, 1} :
       \E i \in CurrMeasInputs(m) :
         LET r == n810bm_tahvo_current_measure_work(Fresh(m), i[1], i[2], i[3], i[4])
         IN  /\ i[4].res = res
             /\ ~r.halted
             /\ Events(r.log, "update_state") # {}
             /\ r.charging = (res = 0)

\* the voltage read or the temperature read of the run that left trace log
\* has failed
ReadFailed(log) ==
  \/ \E i \in Events(log, "batt_voltage") : log[i][2] < 0
  \/ \E i \in Events(log, "batt_temp") : log[i][2] < 0

\* C23 (as stated): if the voltage read or the temperature read fails in
\* the measurement task, the task exits with the PWM-override bits of the
\* charge control register not restored to normal, and without updating
\* the algorithm.
C23_Original ==
  (AboutToMeasure /\ m.charging) =>
    \A r \in CurrMeasResults :
      ReadFailed(r.log) =>
        /\ r.chgctl \cap PwmOverride # {}
        /\ Events(r.log, "update_state") = {}

\* C23 (amended): if the voltage read or the temperature read fails in the
\* measurement task, the task exits without updating the algorithm and
\* without stopping the charge, and the PWM-override bits of the charge
\* control register are restored to normal: the last write to the register
\* clears both, and nothing but the trace differs from the state before.
C23_FailedReadRestoresOverride ==
  (AboutToMeasure /\ m.charging) =>
    \A r \in CurrMeasResults :
      ReadFailed(r.log) =>
        /\ Events(r.log, "update_state") = {}
        /\ Events(r.log, "stop_charge") = {}
        /\ r.chgctl \cap PwmOverride = {}
        /\ \A i \in Events(r.log, "CHGCTL") :
             (\A j \in Events(r.log, "CHGCTL") : j <= i) =>
               r.log[i] = <<"CHGCTL", PwmOverride, {}>>
        /\ Len(r.log) = 7
        /\ r.charging
        /\ r = [Fresh(m) EXCEPT !.log = r.log]

\* the measurement task is about to run on a charging controller; one of
\* its outcomes has a failed voltage read, another a failed temperature read
C23_Witness ==
  /\ AboutToMeasure
  /\ m.charging
  /\ m.chgctl \cap PwmOverride = {}
  /\ \E r \in CurrMeasResults : \E i \in Events(r.log, "batt_voltage") : r.log[i][2] < 0
  /\ \E r \in CurrMeasResults :
       /\ \E i \in Events(r.log, "batt_temp") : r.log[i][2] < 0
       /\ \A i \in Events(r.log, "batt_voltage") : r.log[i][2] >= 0

\* C24: capacity changes only in a monitor pass that observes a change of
\* battery_present: on a rising edge it becomes the class read from BSI
\* (1500 mAh or unknown), on a falling edge it becomes none, and a pass
\* without an edge, the measurement task, the attribute calls and the
\* hardware setup leave it unchanged.
C24_CapacityOnPresenceEdge ==
  /\ \A r \in CurrMeasResults \cup AttrResults \cup LifeResults :
       r.capacity = m.capacity
  /\ (pc["periodic"] = "body" /\ Running) =>
       \A i \in PeriodicInputs(m) :
         LET r == n810bm_periodic_check_work(Fresh(m), i[1], i[2], i[3], i[4])
             sampled == "BATAVAIL" \in i[1]
         IN  /\ r.battery_present = sampled
             /\ IF sampled = m.battery_present THEN r.capacity = m.capacity
                ELSE IF sampled
                  THEN /\ r.capacity = n810bm_read_batt_capacity(i[2])
                       /\ r.capacity \in {N810BM_CAP_1500MAH, N810BM_CAP_UNKNOWN}
                ELSE r.capacity = N810BM_CAP_NONE

\* a pass about to run with a battery classified unknown on insertion: its
\* outcomes keep the class while the battery stays and drop it when it goes
C24_Witness ==
  /\ pc["periodic"] = "body"
  /\ Running
  /\ m.battery_present
  /\ m.capacity = N810BM_CAP_UNKNOWN
  /\ \E r \in PeriodicResults : r.battery_present /\ r.capacity = N810BM_CAP_UNKNOWN
  /\ \E r \in PeriodicResults : ~r.battery_present /\ r.capacity = N810BM_CAP_NONE

\* duty cycles the algorithm may ask for: the ends of the range, values
\* inside it, values above it
PwmRequests == {0, 1, 128, 254, 255, 256, 257, 1000}

\* C25: a PWM-setter request with a duty cycle above 255, or made while
\* charger_enabled is false, or while the battery or the charger is absent,
\* is rejected with an error and leaves active_current_pwm, the charge
\* current register and the queued notifications unchanged; an accepted
\* request writes the register and posts charger_pwm only when the value
\* differs from active_current_pwm; active_current_pwm stays within 0..255.
C25_PwmSetter ==
  /\ m.active_current_pwm \in 0..255
  /\ AboutToMeasure =>
       \A d \in PwmRequests :
         LET s == Fresh(m)
             r == n810bm_charger_set_current_pwm(s, d)
             rejected == \/ d > 255
                         \/ ~s.charger_enabled
                         \/ ~s.battery_present
                         \/ ~s.charger_present
         IN  IF rejected
               THEN /\ r.log = << <<"set_current_pwm", d, "EINVAL">> >>
                    /\ r = [s EXCEPT !.log = r.log]
               ELSE /\ r.log[Len(r.log)] = <<"set_current_pwm", d, "ok">>
                    /\ r.active_current_pwm = d
                    /\ IF d # s.active_current_pwm
                         THEN /\ r.chgcurr = d
                              /\ Cardinality(Events(r.log, "CHGCURR")) = 1
                              /\ r.todo = << <<"set_bit", N810BM_NOTIFY_charger_pwm>>,
                                             <<"schedule_work">> >>
                         ELSE r = [s EXCEPT !.log = r.log]
                    /\ r = [s EXCEPT !.log = r.log, !.todo = r.todo,
                                     !.active_current_pwm = d, !.chgcurr = r.chgcurr]

\* the measurement task is about to run while charging at duty cycle 255
\* with the charger disabled through the attribute: every request is rejected
C25_Witness ==
  /\ AboutToMeasure
  /\ m.charging
  /\ m.active_current_pwm = 255
  /\ ~m.charger_enabled
  /\ m.battery_present
  /\ m.charger_present

\* the measurement task is about to run while charging at duty cycle 255,
\* charger enabled, battery and charger there: requests up to 255 are taken
C25_WitnessAccepted ==
  /\ AboutToMeasure
  /\ m.charging
  /\ m.active_current_pwm = 255
  /\ m.charger_enabled
  /\ m.battery_present
  /\ m.charger_present

\* the measurement task is about to run while charging with the battery gone
C25_WitnessAbsent ==
  /\ AboutToMeasure
  /\ m.charging
  /\ m.charger_enabled
  /\ ~m.battery_present

\* the channels of the three lists of n810bm_parse_pmm_group1
ListChannels ==
  {pmm_adc_ids_1[i] : i \in 1..Len(pmm_adc_ids_1)}
    \cup {pmm_adc_ids_2[i] : i \in 1..Len(pmm_adc_ids_2)}
    \cup {pmm_adc_ids_3[i] : i \in 1..Len(pmm_adc_ids_3)}

\* the mask of field2 for channel c; the mask of field1 is 0xFFFFFFFF for all
Field2Mask(c) ==
  IF c = N810BM_PMM_ADC_BSI THEN 0
  ELSE IF c = N810BM_PMM_ADC_BATTEMP THEN 65535
  ELSE -1

\* the image fetched passes the header check and the two format markers, so
\* that n810bm_parse_pmm_group1 reads its records
AboutToParseGroup1 ==
  /\ AboutToParse
  /\ fw.size = N810BM_PMM_BLOCK_SIZE
  /\ fw.magic = "BME-PMM-BLOCK01"
  /\ TestBit(fw.active_group_mask, 1)
  /\ fw.group1[0].id = 1
  /\ fw.group1[1].id = 1

\* every record of the image carries the id of the channel whose element
\* it is stored in
RecordIdsInPlace == \A c \in ListChannels : fw.group1[c + 3].id = c

\* the records of the three lists, as the claim describes their effect on
\* the table of defaults: none fails the parse, no id or flags byte changes,
\* and a slot that changes is the slot of a channel c whose record at
\* element c + 3 carries the slot's default flags, and holds that record's
\* masked fields
Group1ByPosition ==
  LET before == n810bm_adc_calib_set_defaults
      r == n810bm_parse_pmm_group1(before, fw)
  IN  /\ r.err = "ok"
      /\ \A k \in CalibSlots \ {n810bm_get_adc_calib(N810BM_PMM_ADC_0xFE)} :
           /\ r.calib[k].id = before[k].id
           /\ r.calib[k].flags = before[k].flags
           /\ r.calib[k] # before[k] =>
                \E c \in ListChannels :
                  /\ k = n810bm_get_adc_calib(c)
                  /\ fw.group1[c + 3].flags = before[k].flags
                  /\ r.calib[k].field1 = le32_to_cpu(fw.group1[c + 3].field1)
                  /\ r.calib[k].field2 =
                       U32And(le32_to_cpu(fw.group1[c + 3].field2), Field2Mask(c))

\* C26 (as stated): for each channel c of the three group-1 lists the
\* record read from element c + 3 modifies only the slot of channel c, and
\* only when its flags byte equals the slot's default flags; on a mismatch
\* no slot changes; in neither case does the record make the parse fail or
\* change any slot's id or flags.
C26_Original == AboutToParseGroup1 => Group1ByPosition


\* C28 (as stated): whenever no activity holds the mutex, the current
\* measurement count is 1 if charging is active and 0 otherwise, and the
\* measurement interrupt is enabled exactly when charging is active; the
\* count is never negative.
C28_Original ==
  mutex = "none" =>
    /\ m.current_measure_enabled = (IF m.charging THEN 1 ELSE 0)
    /\ m.irq_enabled <=> m.charging
    /\ m.current_measure_enabled >= 0

\* C29 (as stated): charging is never active at the end of a monitor pass
\* in which the battery was sampled as absent; a battery removed while
\* charging, the charger plugged, has the charge stopped by the next pass.
\* Stated for the passes that do not end in the emergency path.
C29_Original ==
  (pc["periodic"] = "body" /\ Running) =>
    \A r \in PeriodicResults :
      (~r.halted /\ ~r.battery_present) => ~r.charging

\* C30 (as stated): when n810bm_device_exit has returned, none of the three
\* deferred activities is pending or running, and none touches the
\* controller after it is freed.
C30_Original ==
  /\ life = "exited" => \A w \in Works : ~pending[w] /\ pc[w] = "idle"
  /\ ~uaf

\* C31 (as stated): at the end of every monitor pass, charging active
\* implies that charger_enabled is true; a charge whose enable the user has
\* cleared is stopped by the next pass. Stated for the passes that do not
\* end in the emergency path.
C31_Original ==
  (pc["periodic"] = "body" /\ Running) =>
    \A r \in PeriodicResults :
      (~r.halted /\ r.charging) => r.charger_enabled

\* --------------------------------------- the battery voltage read, alone

\* raw levels of the battery voltage channel around the two ends of the
\* line and between them
VoltLevels == {0, 1, 54, 55, 56, 57, 200, 310, 564, 565, 566, 567, 1023}

\* five reads of the battery voltage channel: four at a level and one near
\* it, or one of the five failing with -EIO or -ETIMEDOUT
VoltReads ==
  {[i \in 1..5 |-> IF i = k THEN v + d ELSE v] :
     v \in VoltLevels \ {0, 1, 1023}, d \in -5..5, k \in {1, 5}}
    \cup {Rep(v, 5) : v \in VoltLevels}
    \cup {[i \in 1..5 |-> IF i = k THEN e ELSE 310] : k \in 1..5, e \in {-5, -110}}

\* n810bm_measure_batt_voltage on any five reads, the reads and the result
\* kept in the trace
MeasureBattVoltage ==
  /\ m.log = <<>>
  /\ \E samples \in VoltReads :
       m' = Log(m, <<"measure_batt_voltage", samples,
                     n810bm_measure_batt_voltage(samples)>>)
  /\ UNCHANGED <<mutex, pc, life, pending, notify_flags, attr_op, uaf, nvars, pvars>>

NextVoltage == MeasureBattVoltage

SpecVoltage == Init /\ [][NextVoltage]_vars

\* the reads of the voltage read in the trace, their mean rounded down, and
\* the value returned
VoltRead == m.log[1][2]

VoltMean(s) == (s[1] + s[2] + s[3] + s[4] + s[5]) \div 5

VoltResult == m.log[1][3]

\* C27 (as stated): the battery voltage read returns 2800 mV for every
\* averaged reading up to 0x37, 4200 mV for the averaged reading 0x236, a
\* value that does not decrease as the averaged reading grows, and an error
\* when any of the five reads fails.
C27_Original ==
  m.log # <<>> =>
    IF \E i \in 1..5 : VoltRead[i] < 0
      THEN VoltResult < 0
      ELSE /\ VoltMean(VoltRead) <= 55 => VoltResult = 2800
           /\ VoltMean(VoltRead) = 566 => VoltResult = 4200
           /\ \A s \in VoltReads :
                ((\A i \in 1..5 : s[i] >= 0) /\ VoltMean(s) >= VoltMean(VoltRead))
                  => n810bm_measure_batt_voltage(s) >= VoltResult

====
